---- MODULE Spec2Model ----
(***************************************************************************)
(* ArbitrAI: the off-chain arbitration workflow (cre-workflow) as a state  *)
(* machine.  Three specifications share the variables below:               *)
(*   SpecConsensus  the pure consensus engine applied to a vote triple     *)
(*   SpecParse      one model call and the parsing of its response         *)
(*   Spec           one run of main(): fetch the dispute, validate, fetch  *)
(*                  both evidences, query the models, apply consensus,     *)
(*                  sign, emit the output, submit                          *)
(* Strings that only serve human readers (log lines, the reasoning         *)
(* sentence built by the consensus engine) are not modelled.               *)
(***************************************************************************)
EXTENDS Integers, Sequences, FiniteSets, TLC

VARIABLES
    \* ---- consensus engine, called on its own (SpecConsensus) ----
    cVotes,        \* the caller's list of three ParsedModelVerdict
    cCall,         \* <<>> before the call, then <<name, args...>>
    cResult,       \* <<>> or <<ConsensusResult>>
    fResult,       \* <<>> or <<what the frontend's applyConsensus returned>>
    \* ---- one model call and its parsing (SpecParse) ----
    pModel,        \* index of the model called, 1..3
    pResp,         \* what the HTTP capability answers
    pVerdict,      \* <<>> or <<ParsedModelVerdict>>
    \* ---- one run of the workflow (Spec) ----
    input,         \* WorkflowInput and the process environment
    pc,            \* where the run is
    error,         \* why the run failed ("none" while it has not)
    reqs,          \* number of HTTP requests issued so far, per endpoint
    disputeRec,       \* <<>> or <<DisputeRecord>>
    evPending,     \* parties whose evidence request is in flight
    evCheck,       \* per party: outcome of the hash check on the fetched content
    evidences,      \* per party: <<>> or <<Evidence>>
    modelPending,  \* models (1..3) whose request is in flight
    modelResp,     \* per model: <<>> or <<the response the call received>>
    modelOrder,    \* the models in the order their calls completed
    parsedVotes,    \* <<>> or the three ParsedModelVerdict of queryAllModels
    consensusRes,     \* <<>> or <<ConsensusResult>>
    builtVerdict,       \* <<>> or <<WorkflowVerdict>>
    verdictSig,     \* <<>> or <<signature>>
    outputs,       \* the WorkflowOutputs written by writeOutput, in order
    submitArg,     \* <<>> or <<the verdict handed to submitVerdictOnChain>>
    \* ---- computeVerdictHash, called on its own (SpecHash) ----
    hVerdicts,     \* the two WorkflowVerdicts at hand
    hStrict,       \* whether the installed hexToBytes rejects non-hex characters
    hDigests,      \* the calls made so far, each <<which verdict, result>>
    \* ---- submitVerdictOnChain, called on its own (SpecSubmit) ----
    sPc,           \* where the call is: off, start, awaitBoth, awaitBroadcast, done, failed
    sVerdict,      \* the verdict to submit
    sStrict,       \* whether the installed hexToBytes rejects non-hex characters
    sReqs,         \* per RPC method: how many requests were sent
    sPending,      \* the RPC methods whose request is in flight
    sResp,         \* per RPC method: <<>> or <<the response the call received>>
    sNonce,        \* <<>> or <<what getNonce resolved to>>
    sGasPrice,     \* <<>> or <<what getGasPrice resolved to>>
    sRawTx,        \* <<>> or <<the signed transaction>>
    sResult,       \* <<>>, <<"ok", txHash>> or <<"threw", message>>
    \* ---- evidence server, a party and the workflow's fetch (SpecEvidence) ----
    eStore,        \* the server's store for one dispute, per party <<>> or <<StoredEvidence>>
    eReturned,     \* per party: <<>> or <<the contentHash the server returned>>
    eCommitted,    \* per party: <<>> or <<the evidence hash committed on-chain>>
    eFetched,      \* per party: <<>> or <<result of fetchEvidenceConfidential>>
    eReads,        \* per party: how many GETs returned the content
    eLast,         \* the server's last exchange: the request and its answer
    \* ---- the demo page's launch and reset (SpecDemo) ----
    dPhase,        \* useState phase: idle, running or complete
    dStep,         \* useState step
    dRevealed,     \* useState revealed
    dTs,           \* useState ts: the steps that carry a timestamp
    dCancel,       \* cancelRef.current
    dRuns,         \* the calls of launch so far, each with its loop state and timer
    dResetTimers   \* the timers set by reset, oldest first: ticks until each fires

cVars == <<cVotes, cCall, cResult, fResult>>
pVars == <<pModel, pResp, pVerdict>>
wVars == <<input, pc, error, reqs, disputeRec, evPending, evCheck, evidences,
           modelPending, modelResp, modelOrder, parsedVotes, consensusRes,
           builtVerdict, verdictSig, outputs, submitArg>>
hVars == <<hVerdicts, hStrict, hDigests>>
sVars == <<sPc, sVerdict, sStrict, sReqs, sPending, sResp, sNonce, sGasPrice,
           sRawTx, sResult>>
eVars == <<eStore, eReturned, eCommitted, eFetched, eReads, eLast>>
dVars == <<dPhase, dStep, dRevealed, dTs, dCancel, dRuns, dResetTimers>>
vars == <<cVars, pVars, wVars, hVars, sVars, eVars, dVars>>

(***************************************************************************)
(* JavaScript numbers.  Every number the workflow handles is an integer    *)
(* or NaN; NaN is a value no arithmetic result of the model can equal.     *)
(***************************************************************************)
NaN == 0 - 1000000

JsAdd(a, b) == IF a = NaN \/ b = NaN THEN NaN ELSE a + b

\* Math.round(num / den): the nearest integer, halves towards +infinity.
MathRound(num, den) ==
    IF num = NaN THEN NaN ELSE (2 * num + den) \div (2 * den)

JsMin(a, b) == IF a = NaN \/ b = NaN THEN NaN ELSE IF a < b THEN a ELSE b
JsMax(a, b) == IF a = NaN \/ b = NaN THEN NaN ELSE IF a > b THEN a ELSE b

RECURSIVE SumSeq(_)
\* confidences.reduce((a, b) => a + b, 0)
SumSeq(s) == IF s = <<>> THEN 0 ELSE JsAdd(Head(s), SumSeq(Tail(s)))

(***************************************************************************)
(* Types shared by the workflow modules.                                   *)
(***************************************************************************)
VerdictOutcome ==
    {"FAVOR_PARTY_A", "FAVOR_PARTY_B", "INSUFFICIENT_EVIDENCE",
     "NO_CONSENSUS", "CIRCUIT_BREAKER"}

VerdictOutcomeIndex(o) ==
    CASE o = "FAVOR_PARTY_A" -> 0
      [] o = "FAVOR_PARTY_B" -> 1
      [] o = "INSUFFICIENT_EVIDENCE" -> 2
      [] o = "NO_CONSENSUS" -> 3
      [] o = "CIRCUIT_BREAKER" -> 4

\* The verdicts parseModelResponse accepts from a model.
allowedVerdicts == {"FAVOR_PARTY_A", "FAVOR_PARTY_B", "INSUFFICIENT_EVIDENCE"}

\* The model ids, in the order queryAllModels calls and returns them.
ModelIds == <<"claude-opus-4-6", "gpt-4o", "mistral-large-2411">>

(***************************************************************************)
(* Consensus engine.                                                       *)
(***************************************************************************)
CONSENSUS_THRESHOLD == 2

outcomesToCheck == <<"FAVOR_PARTY_A", "FAVOR_PARTY_B", "INSUFFICIENT_EVIDENCE">>

\* A faulty variant of voteCountsOf that counts whether an outcome was voted
\* for, not how often.
voteCountsOf_presence(votes) ==
    [o \in VerdictOutcome |->
        IF \E i \in 1..Len(votes) : votes[i].vote = o THEN 1 ELSE 0]

\* for (const v of votes) voteCounts[v.vote]++
voteCountsOf(votes) ==
    [o \in VerdictOutcome |->
        Cardinality({i \in 1..Len(votes) : votes[i].vote = o})]

\* for (const v of votes) confidenceByOutcome[v.vote].push(v.confidencePct)
confidenceByOutcome(votes, o) ==
    LET sel == SelectSeq(votes, LAMBDA v : v.vote = o)
    IN  [i \in 1..Len(sel) |-> sel[i].confidencePct]

\* A faulty variant of avgConfidenceBps that averages over all three votes.
avgConfidenceBps_allVotes(votes, outcome) ==
    LET sum == SumSeq([i \in 1..Len(votes) |-> votes[i].confidencePct])
    IN  IF sum = NaN THEN NaN ELSE MathRound(sum * 100, Len(votes))

\* avgConfidence = sum / length; Math.round(avgConfidence * 100)
avgConfidenceBps(votes, outcome) ==
    LET confidences == confidenceByOutcome(votes, outcome)
        sum == SumSeq(confidences)
    IN  IF sum = NaN THEN NaN ELSE MathRound(sum * 100, Len(confidences))

\* A faulty variant of firstAtThreshold that is content with a single vote.
firstAtThreshold_single(votes) ==
    LET counts == voteCountsOf(votes)
        hits == {k \in 1..Len(outcomesToCheck) : counts[outcomesToCheck[k]] >= 1}
    IN  IF hits = {} THEN <<>>
        ELSE <<outcomesToCheck[CHOOSE k \in hits : \A j \in hits : k <= j]>>

\* Rule 2's loop: the first outcome of outcomesToCheck that reaches the
\* threshold, as <<outcome>>; <<>> when none does.
firstAtThreshold(votes) ==
    LET counts == voteCountsOf(votes)
        hits == {k \in 1..Len(outcomesToCheck) :
                    counts[outcomesToCheck[k]] >= CONSENSUS_THRESHOLD}
    IN  IF hits = {} THEN <<>>
        ELSE <<outcomesToCheck[CHOOSE k \in hits : \A j \in hits : k <= j]>>

circuitBreakerResult(votes) ==
    [finalOutcome |-> "CIRCUIT_BREAKER",
     consensusCount |-> voteCountsOf(votes)["CIRCUIT_BREAKER"],
     aggregateConfidenceBps |-> 0,
     voteCounts |-> voteCountsOf(votes)]

thresholdResult(votes, outcome) ==
    [finalOutcome |-> outcome,
     consensusCount |-> voteCountsOf(votes)[outcome],
     aggregateConfidenceBps |-> avgConfidenceBps(votes, outcome),
     voteCounts |-> voteCountsOf(votes)]

\* A faulty variant of noConsensusResult that reports no agreeing model at all.
noConsensusResult_count0(votes) ==
    [finalOutcome |-> "NO_CONSENSUS",
     consensusCount |-> 0,
     aggregateConfidenceBps |-> 0,
     voteCounts |-> voteCountsOf(votes)]

noConsensusResult(votes) ==
    [finalOutcome |-> "NO_CONSENSUS",
     consensusCount |-> 1,
     aggregateConfidenceBps |-> 0,
     voteCounts |-> voteCountsOf(votes)]

\* A faulty variant of applyConsensus that checks the threshold before the circuit
\* breaker.
applyConsensus_thresholdFirst(votes) ==
    IF Len(votes) # 3 THEN <<"threw">>
    ELSE IF firstAtThreshold(votes) # <<>>
    THEN <<"ok", thresholdResult(votes, firstAtThreshold(votes)[1])>>
    ELSE IF voteCountsOf(votes)["CIRCUIT_BREAKER"] > 0
    THEN <<"ok", circuitBreakerResult(votes)>>
    ELSE <<"ok", noConsensusResult(votes)>>

\* applyConsensus(votes): <<"threw">> for a list that has not three votes,
\* else <<"ok", ConsensusResult>>.
applyConsensus(votes) ==
    IF Len(votes) # 3 THEN <<"threw">>
    ELSE IF voteCountsOf(votes)["CIRCUIT_BREAKER"] > 0
    THEN <<"ok", circuitBreakerResult(votes)>>
    ELSE IF firstAtThreshold(votes) # <<>>
    THEN <<"ok", thresholdResult(votes, firstAtThreshold(votes)[1])>>
    ELSE <<"ok", noConsensusResult(votes)>>

\* The frontend's count of the votes for one outcome and the confidences
\* pushed for it, in the order of the votes.
frontendVoteCount(votes, o) == Cardinality({i \in DOMAIN votes : votes[i].vote = o})

frontendConfidences(votes, o) ==
    LET F[n \in 0..Len(votes)] ==
            IF n = 0 THEN <<>>
            ELSE IF votes[n].vote = o THEN Append(F[n - 1], votes[n].confidencePct)
            ELSE F[n - 1]
    IN  F[Len(votes)]

\* A faulty variant of frontendApplyConsensus that takes a single vote for an
\* outcome as consensus.
frontendApplyConsensus_threshold1(votes) ==
    LET voteCounts == [o \in VerdictOutcome |-> frontendVoteCount(votes, o)]
        reached == {o \in {"FAVOR_PARTY_A", "FAVOR_PARTY_B", "INSUFFICIENT_EVIDENCE"} :
                        voteCounts[o] >= 1}
        outcome == IF "FAVOR_PARTY_A" \in reached THEN "FAVOR_PARTY_A"
                   ELSE IF "FAVOR_PARTY_B" \in reached THEN "FAVOR_PARTY_B"
                   ELSE "INSUFFICIENT_EVIDENCE"
        confidences == frontendConfidences(votes, outcome)
    IN  IF voteCounts["CIRCUIT_BREAKER"] > 0
        THEN [finalOutcome |-> "CIRCUIT_BREAKER",
              consensusCount |-> voteCounts["CIRCUIT_BREAKER"],
              aggregateConfidenceBps |-> 0,
              voteCounts |-> voteCounts]
        ELSE IF reached # {}
        THEN [finalOutcome |-> outcome,
              consensusCount |-> voteCounts[outcome],
              aggregateConfidenceBps |->
                  IF SumSeq(confidences) = NaN THEN NaN
                  ELSE MathRound(SumSeq(confidences) * 100, Len(confidences)),
              voteCounts |-> voteCounts]
        ELSE [finalOutcome |-> "NO_CONSENSUS",
              consensusCount |-> 1,
              aggregateConfidenceBps |-> 0,
              voteCounts |-> voteCounts]

\* The frontend copy of applyConsensus (lib/cre/consensus.ts).  It has no
\* check of the number of votes and always returns a ConsensusResult; the
\* reasoning text, which differs from the workflow's, is left out.
frontendApplyConsensus(votes) ==
    LET voteCounts == [o \in VerdictOutcome |-> frontendVoteCount(votes, o)]
        reached == {o \in {"FAVOR_PARTY_A", "FAVOR_PARTY_B", "INSUFFICIENT_EVIDENCE"} :
                        voteCounts[o] >= CONSENSUS_THRESHOLD}
        outcome == IF "FAVOR_PARTY_A" \in reached THEN "FAVOR_PARTY_A"
                   ELSE IF "FAVOR_PARTY_B" \in reached THEN "FAVOR_PARTY_B"
                   ELSE "INSUFFICIENT_EVIDENCE"
        confidences == frontendConfidences(votes, outcome)
    IN  IF voteCounts["CIRCUIT_BREAKER"] > 0
        THEN [finalOutcome |-> "CIRCUIT_BREAKER",
              consensusCount |-> voteCounts["CIRCUIT_BREAKER"],
              aggregateConfidenceBps |-> 0,
              voteCounts |-> voteCounts]
        ELSE IF reached # {}
        THEN [finalOutcome |-> outcome,
              consensusCount |-> voteCounts[outcome],
              aggregateConfidenceBps |->
                  IF SumSeq(confidences) = NaN THEN NaN
                  ELSE MathRound(SumSeq(confidences) * 100, Len(confidences)),
              voteCounts |-> voteCounts]
        ELSE [finalOutcome |-> "NO_CONSENSUS",
              consensusCount |-> 1,
              aggregateConfidenceBps |-> 0,
              voteCounts |-> voteCounts]

\* The objects of a call: arr[a] is array a as the references of its slots,
\* obj[r] is the record behind reference r.  The caller's list is array 1 and
\* its votes are the objects 1..Len(votes).
callerHeap(votes) ==
    [arr |-> <<[i \in 1..Len(votes) |-> i]>>, obj |-> votes]

\* The list array a holds.
listOf(heap, a) == [i \in 1..Len(heap.arr[a]) |-> heap.obj[heap.arr[a][i]]]

\* A faulty variant of simulateWhatIfEffect whose new object holds the
\* hypothetical vote but not the confidence of the vote it replaces.
simulateWhatIfEffect_resetConfidence(votes, modelIndex, hypotheticalVote) ==
    LET h0 == callerHeap(votes)
        modified == Len(h0.arr) + 1
        h1 == [h0 EXCEPT !.arr = Append(@, h0.arr[1])]
        fresh == Len(h1.obj) + 1
        h2 == [h1 EXCEPT !.obj = Append(@, [h1.obj[h1.arr[modified][modelIndex + 1]]
                                                EXCEPT !.vote = hypotheticalVote,
                                                       !.confidencePct = 0])]
        h3 == [h2 EXCEPT !.arr[modified][modelIndex + 1] = fresh]
    IN  [callerList |-> listOf(h3, 1),
         result |-> applyConsensus(listOf(h3, modified))]

\* A faulty variant of simulateWhatIfEffect that writes the hypothetical vote
\* into the caller's list instead of a copy.
simulateWhatIfEffect_inPlace(votes, modelIndex, hypotheticalVote) ==
    LET h0 == callerHeap(votes)
        modified == 1
        h1 == [h0 EXCEPT !.obj[h0.arr[modified][modelIndex + 1]].vote = hypotheticalVote]
    IN  [callerList |-> listOf(h1, 1),
         result |-> applyConsensus(listOf(h1, modified))]

\* simulateWhatIf statement by statement: `[...votes]` is a new array with
\* the same references, `{ ...modified[modelIndex], vote }` a new object, put
\* into the new array; then applyConsensus on the new array, which only reads.
\* callerList is the caller's list when the call returns.
simulateWhatIfEffect(votes, modelIndex, hypotheticalVote) ==
    LET h0 == callerHeap(votes)
        modified == Len(h0.arr) + 1
        h1 == [h0 EXCEPT !.arr = Append(@, h0.arr[1])]
        fresh == Len(h1.obj) + 1
        h2 == [h1 EXCEPT !.obj = Append(@, [h1.obj[h1.arr[modified][modelIndex + 1]]
                                                EXCEPT !.vote = hypotheticalVote])]
        h3 == [h2 EXCEPT !.arr[modified][modelIndex + 1] = fresh]
    IN  [callerList |-> listOf(h3, 1),
         result |-> applyConsensus(listOf(h3, modified))]

\* What simulateWhatIf returns.
simulateWhatIf(votes, modelIndex, hypotheticalVote) ==
    simulateWhatIfEffect(votes, modelIndex, hypotheticalVote).result

\* applyConsensus with the caller's list when it returns: the function reads
\* votes in one for-of loop and writes only to its own counters.
applyConsensusEffect(votes) ==
    [callerList |-> listOf(callerHeap(votes), 1), result |-> applyConsensus(votes)]

(***************************************************************************)
(* Model client.  What the HTTP capability answers to one model request:   *)
(*   transport "reject"   httpFetch throws (timeout, network or HTTP       *)
(*                        failure raised by the capability), message msg   *)
(*   transport "ok"       a response whose body is one of                  *)
(*     "notJson"          not JSON (an HTML error page, a truncated body)  *)
(*     "apiError"         JSON with an error object, message msg           *)
(*     "noContent"        JSON with neither error nor content / choices    *)
(*     "emptyContent"     JSON whose content / choices list is empty       *)
(*     "completion"       JSON carrying the model's text                   *)
(* The model's text is "noJson" (no {...} in it), "badJson" ({...} that    *)
(* does not parse) or "json": an object, possibly wrapped in other text,   *)
(* with a verdict, a confidence (in tenths, or NaN when the field is       *)
(* missing or no number) and a reasoning ("" when missing).                *)
(***************************************************************************)
NoText == [shape |-> "empty", verdict |-> "", confidence |-> 0, reasoning |-> ""]

ErrorMessages == {"", "overloaded"}

PayloadVerdicts == allowedVerdicts \cup {"NO_CONSENSUS", "CIRCUIT_BREAKER"}

\* Payload confidences in tenths: -5.0, 0.4, 50.5, 87.5, 100.0, 100.4, 150.0
ConfidencePayloads == {NaN, -50, 4, 505, 875, 1000, 1004, 1500}

PayloadReasonings == {"", "A delivered"}

ModelTexts ==
    {[shape |-> "noJson", verdict |-> "", confidence |-> 0, reasoning |-> ""],
     [shape |-> "badJson", verdict |-> "", confidence |-> 0, reasoning |-> ""]}
    \cup [shape : {"json"}, verdict : PayloadVerdicts,
          confidence : ConfidencePayloads, reasoning : PayloadReasonings]

ModelResponses ==
    [transport : {"reject"}, body : {"none"}, msg : {"timeout"}, text : {NoText}]
    \cup [transport : {"ok"}, body : {"notJson", "noContent", "emptyContent"},
          msg : {""}, text : {NoText}]
    \cup [transport : {"ok"}, body : {"apiError"}, msg : ErrorMessages,
          text : {NoText}]
    \cup [transport : {"ok"}, body : {"completion"}, msg : {""}, text : ModelTexts]

\* A RawModelResponse; error "" stands for the absent (or empty) error field,
\* which `if (raw.error)` does not tell apart.
RawOk(modelId, text) == [modelId |-> modelId, rawText |-> text, error |-> ""]
RawError(modelId, msg) == [modelId |-> modelId, rawText |-> NoText, error |-> msg]

\* A faulty variant of callModel without its try / catch: a rejected request
\* rejects the call.
callModel_noCatch(modelId, resp) ==
    IF resp.transport = "reject" THEN <<"threw", resp.msg>>
    ELSE IF resp.body = "notJson" THEN <<"threw", "Unexpected token">>
    ELSE IF resp.body = "apiError" THEN <<"threw", resp.msg>>
    ELSE IF resp.body = "noContent"
    THEN <<"threw", "Cannot read properties of undefined">>
    ELSE <<"ok", RawOk(modelId, resp.text)>>

\* callClaude, callGPT4, callMistral: the three differ in endpoint, headers and
\* in where the text sits in the body (content[0].text, choices[0].message.content).
\* The whole body of each is inside try / catch, so the call always resolves:
\* <<"ok", RawModelResponse>>.
callModel(modelId, resp) ==
    IF resp.transport = "reject" THEN <<"ok", RawError(modelId, resp.msg)>>
    ELSE IF resp.body = "notJson" THEN <<"ok", RawError(modelId, "Unexpected token")>>
    ELSE IF resp.body = "apiError" THEN <<"ok", RawError(modelId, resp.msg)>>
    ELSE IF resp.body = "noContent"
    THEN <<"ok", RawError(modelId, "Cannot read properties of undefined")>>
    ELSE <<"ok", RawOk(modelId, resp.text)>>

circuitBreakerVerdict(modelId, why) ==
    [modelId |-> modelId, vote |-> "CIRCUIT_BREAKER", confidencePct |-> 0,
     reasoning |-> why, parseSuccess |-> FALSE]

\* Math.max(0, Math.min(100, Math.round(parsed.confidence)))
clampConfidence(tenths) == JsMax(0, JsMin(100, MathRound(tenths, 10)))

\* A faulty variant of parseModelResponse that accepts every verdict of the
\* VerdictOutcome type.
parseModelResponse_anyOutcome(modelId, raw) ==
    IF raw.error # ""
    THEN circuitBreakerVerdict(modelId, <<"Model failed: ", raw.error>>)
    ELSE IF raw.rawText.shape \in {"empty", "noJson"}
    THEN circuitBreakerVerdict(modelId, <<"Parse error: ", "No JSON found in response">>)
    ELSE IF raw.rawText.shape = "badJson"
    THEN circuitBreakerVerdict(modelId, <<"Parse error: ", "Unexpected token">>)
    ELSE [modelId |-> modelId,
          vote |-> raw.rawText.verdict,
          confidencePct |-> clampConfidence(raw.rawText.confidence),
          reasoning |-> IF raw.rawText.reasoning = ""
                        THEN <<"No reasoning provided">>
                        ELSE <<raw.rawText.reasoning>>,
          parseSuccess |-> TRUE]

\* A faulty variant of parseModelResponse that counts a failed call as a vote
\* for INSUFFICIENT_EVIDENCE.
parseModelResponse_failureAsVote(modelId, raw) ==
    IF raw.error # ""
    THEN [modelId |-> modelId, vote |-> "INSUFFICIENT_EVIDENCE", confidencePct |-> 0,
          reasoning |-> <<"Model failed: ", raw.error>>, parseSuccess |-> FALSE]
    ELSE IF raw.rawText.shape \in {"empty", "noJson"}
    THEN circuitBreakerVerdict(modelId, <<"Parse error: ", "No JSON found in response">>)
    ELSE IF raw.rawText.shape = "badJson"
    THEN circuitBreakerVerdict(modelId, <<"Parse error: ", "Unexpected token">>)
    ELSE IF raw.rawText.verdict \notin allowedVerdicts
    THEN circuitBreakerVerdict(modelId, <<"Parse error: ", "Invalid verdict value">>)
    ELSE [modelId |-> modelId,
          vote |-> raw.rawText.verdict,
          confidencePct |-> clampConfidence(raw.rawText.confidence),
          reasoning |-> IF raw.rawText.reasoning = ""
                        THEN <<"No reasoning provided">>
                        ELSE <<raw.rawText.reasoning>>,
          parseSuccess |-> TRUE]

parseModelResponse(modelId, raw) ==
    IF raw.error # ""
    THEN circuitBreakerVerdict(modelId, <<"Model failed: ", raw.error>>)
    ELSE IF raw.rawText.shape \in {"empty", "noJson"}
    THEN circuitBreakerVerdict(modelId, <<"Parse error: ", "No JSON found in response">>)
    ELSE IF raw.rawText.shape = "badJson"
    THEN circuitBreakerVerdict(modelId, <<"Parse error: ", "Unexpected token">>)
    ELSE IF raw.rawText.verdict \notin allowedVerdicts
    THEN circuitBreakerVerdict(modelId, <<"Parse error: ", "Invalid verdict value">>)
    ELSE [modelId |-> modelId,
          vote |-> raw.rawText.verdict,
          confidencePct |-> clampConfidence(raw.rawText.confidence),
          reasoning |-> IF raw.rawText.reasoning = ""
                        THEN <<"No reasoning provided">>
                        ELSE <<raw.rawText.reasoning>>,
          parseSuccess |-> TRUE]

\* A faulty variant of queryAllModels that returns the second and third verdict
\* swapped.
queryAllModels_swapped(resps) ==
    LET order == <<1, 3, 2>>
    IN  [i \in 1..3 |->
            parseModelResponse(ModelIds[order[i]],
                               callModel(ModelIds[order[i]], resps[order[i]])[2])]

\* queryAllModels, once the three calls have resolved: Promise.all keeps the
\* order of the calls, and each raw response is parsed under the id of the call
\* that produced it.
queryAllModels(resps) ==
    [i \in 1..3 |->
        parseModelResponse(ModelIds[i], callModel(ModelIds[i], resps[i])[2])]

(***************************************************************************)
(* Crypto primitives and the binary codec, idealised: keccak256 is         *)
(* collision-free, an ECDSA signature is determined by key and digest      *)
(* (RFC 6979), and an encoded word keeps the value it encodes.             *)
(***************************************************************************)
keccak256(x) == <<"keccak256", x>>

\* '0x' + '0'.repeat(64)
ZeroHash == <<"0x0000000000000000000000000000000000000000000000000000000000000000">>

encodeBytes32(hex) == <<"bytes32", hex>>
encodeUint(value) == <<"uint", value>>
encodeUint8(value) == <<"uint", value>>

\* value.toString(16).padStart(64, '0').  NaN gives sixty-one zeros and "NaN",
\* which is no hex string: the calldata, a string, carries it as it is.
encodeUint16(value) == IF value = NaN THEN <<"not hex">> ELSE <<"uint", value>>

\* hexToBytes of @noble/hashes on the joined words.  Releases that check every
\* digit throw on "NaN"; earlier ones parse each byte with parseInt, which
\* reads "0N" as 0 and "aN" as 10.  strictHex says which release is installed.
hexToBytesWord(word, strictHex) ==
    IF word # <<"not hex">> THEN word
    ELSE IF strictHex THEN <<"throws">> ELSE <<"uint", 10>>

\* The `{} as WorkflowVerdict` of main.
EmptyObject == [emptyObject |-> TRUE]

\* A faulty variant of verdictWords that leaves executedAt out.
verdictWords_noExecutedAt(verdict) ==
    <<encodeBytes32(verdict.disputeId),
      encodeUint8(VerdictOutcomeIndex(verdict.finalOutcome))>>
    \o <<encodeBytes32(keccak256(verdict.modelVotes[1].modelId)),
         encodeUint8(VerdictOutcomeIndex(verdict.modelVotes[1].vote)),
         encodeUint16(verdict.modelVotes[1].confidenceBps),
         encodeBytes32(keccak256(verdict.modelVotes[1].reasoning))>>
    \o <<encodeBytes32(keccak256(verdict.modelVotes[2].modelId)),
         encodeUint8(VerdictOutcomeIndex(verdict.modelVotes[2].vote)),
         encodeUint16(verdict.modelVotes[2].confidenceBps),
         encodeBytes32(keccak256(verdict.modelVotes[2].reasoning))>>
    \o <<encodeBytes32(keccak256(verdict.modelVotes[3].modelId)),
         encodeUint8(VerdictOutcomeIndex(verdict.modelVotes[3].vote)),
         encodeUint16(verdict.modelVotes[3].confidenceBps),
         encodeBytes32(keccak256(verdict.modelVotes[3].reasoning))>>
    \o <<encodeUint8(verdict.consensusCount),
         encodeBytes32(verdict.evidenceHashA),
         encodeBytes32(verdict.evidenceHashB),
         encodeBytes32(verdict.workflowRunId)>>

\* The verdict's fields in the order both the hash and the calldata encode them.
verdictWords(verdict) ==
    <<encodeBytes32(verdict.disputeId),
      encodeUint8(VerdictOutcomeIndex(verdict.finalOutcome))>>
    \o <<encodeBytes32(keccak256(verdict.modelVotes[1].modelId)),
         encodeUint8(VerdictOutcomeIndex(verdict.modelVotes[1].vote)),
         encodeUint16(verdict.modelVotes[1].confidenceBps),
         encodeBytes32(keccak256(verdict.modelVotes[1].reasoning))>>
    \o <<encodeBytes32(keccak256(verdict.modelVotes[2].modelId)),
         encodeUint8(VerdictOutcomeIndex(verdict.modelVotes[2].vote)),
         encodeUint16(verdict.modelVotes[2].confidenceBps),
         encodeBytes32(keccak256(verdict.modelVotes[2].reasoning))>>
    \o <<encodeBytes32(keccak256(verdict.modelVotes[3].modelId)),
         encodeUint8(VerdictOutcomeIndex(verdict.modelVotes[3].vote)),
         encodeUint16(verdict.modelVotes[3].confidenceBps),
         encodeBytes32(keccak256(verdict.modelVotes[3].reasoning))>>
    \o <<encodeUint8(verdict.consensusCount),
         encodeBytes32(verdict.evidenceHashA),
         encodeBytes32(verdict.evidenceHashB),
         encodeUint(verdict.executedAt),
         encodeBytes32(verdict.workflowRunId)>>

\* computeVerdictHash: <<"threw", why>> or <<"ok", digest>>.
computeVerdictHash(verdict, strictHex) ==
    IF "modelVotes" \notin DOMAIN verdict
    THEN <<"threw", "TypeError: verdict.modelVotes is undefined">>
    ELSE LET parts == verdictWords(verdict)
             bytes == [k \in 1..Len(parts) |-> hexToBytesWord(parts[k], strictHex)]
         IN  IF \E k \in 1..Len(bytes) : bytes[k] = <<"throws">>
             THEN <<"threw", "hexToBytes: invalid hex">>
             ELSE <<"ok", keccak256(bytes)>>

ETH_SIGNED_MESSAGE_PREFIX == "\\x19Ethereum Signed Message:\\n32"

\* signVerdict: <<"threw", why>> or <<"ok", signature>>.
signVerdict(verdict, operatorPrivKey, strictHex) ==
    LET verdictHash == computeVerdictHash(verdict, strictHex)
    IN  IF verdictHash[1] = "threw" THEN verdictHash
        ELSE <<"ok", <<"sig", operatorPrivKey,
                       keccak256(<<ETH_SIGNED_MESSAGE_PREFIX, verdictHash[2]>>)>>>>

SUBMIT_VERDICT_SELECTOR == <<"selector", "submitVerdict((bytes32,uint8,(string,uint8,uint16,bytes32)[3],uint8,bytes32,bytes32,uint256,bytes32),bytes)">>

encodeSubmitVerdictCalldata(verdict, sig) ==
    <<SUBMIT_VERDICT_SELECTOR, encodeUint(64), encodeUint(64 + 10 * 32 + 3 * 4 * 32)>>
    \o verdictWords(verdict)
    \o <<encodeUint(65), <<"bytes", sig>>>>

\* buildWorkflowOutput; verdictSummary keeps the fields the summary line prints.
buildWorkflowOutput(verdict, sig) ==
    [disputeId |-> verdict.disputeId,
     calldata |-> encodeSubmitVerdictCalldata(verdict, sig),
     verdictSummary |->
        <<"Dispute", verdict.disputeId, "Outcome", verdict.finalOutcome,
          "Consensus", verdict.consensusCount,
          "Models", [i \in 1..3 |-> <<verdict.modelVotes[i].modelId,
                                      verdict.modelVotes[i].vote,
                                      verdict.modelVotes[i].confidenceBps>>],
          "RunId", verdict.workflowRunId>>,
     signature |-> sig]

\* The output main writes when no dispute is pending.
NoDisputesOutput ==
    [disputeId |-> "", calldata |-> <<"0x">>, verdictSummary |-> <<"No disputes">>,
     signature |-> <<"0x">>]

\* submitVerdictOnChain up to its first await: it signs and encodes the verdict
\* it is given.  <<"threw", why>> or <<"ok", calldata>>.
submitVerdictOnChain(verdict, operatorPrivKey, strictHex) ==
    LET sig == signVerdict(verdict, operatorPrivKey, strictHex)
    IN  IF sig[1] = "threw" THEN sig
        ELSE <<"ok", encodeSubmitVerdictCalldata(verdict, sig[2])>>

(***************************************************************************)
(* Evidence fetcher.                                                       *)
(***************************************************************************)
Parties == {"A", "B"}

\* What each party committed on-chain, and what the evidence server may return.
Committed == [p \in Parties |-> IF p = "A" THEN "evidence of A" ELSE "evidence of B"]
Contents == {"evidence of A", "evidence of B", "tampered"}

\* The status names of decodeDisputeRecord's statusMap.
statusMap(n) ==
    CASE n = 0 -> "NONE" [] n = 1 -> "PENDING" [] n = 2 -> "ACTIVE"
      [] n = 3 -> "IN_ARBITRATION" [] n = 4 -> "SETTLED" [] n = 5 -> "REFUNDED"
      [] n = 6 -> "ESCALATED" [] OTHER -> "UNKNOWN"

\* What the RPC node answers to the eth_call of getDispute: the request is
\* rejected, the node reports an error, the result is too short to decode, or
\* it is a record with a status and the two evidence commitments.
DisputeResponses ==
    [kind : {"reject", "rpcError", "short"}, status : {0},
     evidenceHashA : {ZeroHash}, evidenceHashB : {ZeroHash}]
    \cup [kind : {"record"}, status : 0..7,
          evidenceHashA : {ZeroHash, keccak256(Committed["A"])},
          evidenceHashB : {ZeroHash, keccak256(Committed["B"])}]

\* fetchDisputeFromChain with decodeDisputeRecord: <<"threw", why>> or
\* <<"ok", DisputeRecord>>.  The registry returns the record stored under the
\* id asked for; addresses, amount and description play no part in the flow.
fetchDisputeFromChain(disputeId, resp) ==
    IF resp.kind = "reject" THEN <<"threw", "dispute_fetch_rejected">>
    ELSE IF resp.kind = "rpcError" THEN <<"threw", "rpc_error">>
    ELSE IF resp.kind = "short" THEN <<"threw", "decode_error">>
    ELSE <<"ok", [id |-> disputeId,
                  status |-> statusMap(resp.status),
                  evidenceHashA |-> resp.evidenceHashA,
                  evidenceHashB |-> resp.evidenceHashB]>>

\* What the evidence server answers to one GET.
EvidenceResponses ==
    [transport : {"reject"}, statusCode : {0}, body : {"none"}, content : {""}]
    \cup [transport : {"ok"}, statusCode : {404}, body : {"none"}, content : {""}]
    \cup [transport : {"ok"}, statusCode : {200}, body : {"notJson"}, content : {""}]
    \cup [transport : {"ok"}, statusCode : {200}, body : {"json"}, content : Contents]

\* Whether a response carries content for the hash check.
hasContent(resp) ==
    resp.transport = "ok" /\ resp.statusCode = 200 /\ resp.body = "json"

\* A faulty variant of fetchEvidenceConfidential without the integrity check.
fetchEvidenceConfidential_noHashCheck(partyLabel, expectedHash, resp) ==
    IF resp.transport = "reject" THEN <<"threw", "evidence_fetch_rejected">>
    ELSE IF resp.statusCode # 200 THEN <<"threw", "evidence_not_submitted">>
    ELSE IF resp.body # "json" THEN <<"threw", "evidence_bad_json">>
    ELSE <<"ok", [partyLabel |-> partyLabel, content |-> resp.content,
                  contentHash |-> keccak256(resp.content)]>>

\* fetchEvidenceConfidential, from the response on: <<"threw", why>> or
\* <<"ok", Evidence>>.  Both hashes are compared in lower case; the model's
\* hashes have one spelling.
fetchEvidenceConfidential(partyLabel, expectedHash, resp) ==
    IF resp.transport = "reject" THEN <<"threw", "evidence_fetch_rejected">>
    ELSE IF resp.statusCode # 200 THEN <<"threw", "evidence_not_submitted">>
    ELSE IF resp.body # "json" THEN <<"threw", "evidence_bad_json">>
    ELSE IF keccak256(resp.content) # expectedHash
    THEN <<"threw", "evidence_integrity">>
    ELSE <<"ok", [partyLabel |-> partyLabel, content |-> resp.content,
                  contentHash |-> keccak256(resp.content)]>>

expectedHashOf(dispute, partyLabel) ==
    IF partyLabel = "A" THEN dispute.evidenceHashA ELSE dispute.evidenceHashB

(***************************************************************************)
(* Orchestrator.                                                           *)
(***************************************************************************)
MaxPending == 2
MaxNow == 2
MaxRand == 1

RequiredSecrets == {"anthropicKey", "openaiKey", "mistralKey", "operatorPrivKey"}

OperatorKey == "operatorPrivKey value"

ManualId == "0xd0"
PendingId(k) == "0xd" \o ToString(k)

\* The workflow input as getInput parses it: both fields are optional, so a
\* manual dispute id, the pending list of the cron trigger, both or neither
\* may be present; the required secrets that are empty; and
\* SUBMIT_ONCHAIN === 'true'.
Inputs ==
    [manualDisputeId : {<<>>, <<ManualId>>},
     pendingDisputes : {[k \in 1..n |-> PendingId(k)] : n \in 0..MaxPending},
     missingSecrets : SUBSET RequiredSecrets,
     submitOnchain : BOOLEAN]

\* Date.now() in milliseconds, and Math.random().
NowMs == {1000 * t + 500 : t \in 1..MaxNow}
Rands == 1..MaxRand

Endpoints == {"getDispute", "evidence/a", "evidence/b"} \cup {ModelIds[i] : i \in 1..3}

evidenceEndpoint(p) == IF p = "A" THEN "evidence/a" ELSE "evidence/b"

\* A faulty variant of checkSecrets that does not look at operatorPrivKey.
checkSecrets_noOperatorKey(in) ==
    IF in.missingSecrets \ {"operatorPrivKey"} # {} THEN "missing_secrets" ELSE "ok"

\* main's validation of the required secrets: "ok" or the failure.
checkSecrets(in) ==
    IF in.missingSecrets # {} THEN "missing_secrets" ELSE "ok"

\* A faulty variant of disputeIdsOf that looks at the pending list first.
disputeIdsOf_pendingFirst(in) ==
    IF in.pendingDisputes # <<>> THEN in.pendingDisputes
    ELSE in.manualDisputeId

\* main's collection of dispute ids.
disputeIdsOf(in) ==
    IF in.manualDisputeId # <<>> THEN in.manualDisputeId
    ELSE in.pendingDisputes

\* A faulty variant of validateDispute that checks only party A's commitment.
validateDispute_onlyHashA(dispute) ==
    IF dispute.status # "IN_ARBITRATION" THEN "wrong_status"
    ELSE IF dispute.evidenceHashA = ZeroHash THEN "missing_evidence_hashes"
    ELSE "ok"

\* resolveDispute's two precondition checks: "ok" or the failure.
validateDispute(dispute) ==
    IF dispute.status # "IN_ARBITRATION" THEN "wrong_status"
    ELSE IF dispute.evidenceHashA = ZeroHash \/ dispute.evidenceHashB = ZeroHash
    THEN "missing_evidence_hashes"
    ELSE "ok"

\* Math.round(confidencePct * 100)
toBps(confidencePct) == IF confidencePct = NaN THEN NaN ELSE confidencePct * 100

\* The WorkflowVerdict resolveDispute builds.
buildVerdict(disputeId, dispute, votes, consensusResult, nowMs, rnd) ==
    [disputeId |-> disputeId,
     finalOutcome |-> consensusResult.finalOutcome,
     modelVotes |-> [i \in 1..3 |->
        [modelId |-> votes[i].modelId,
         vote |-> votes[i].vote,
         confidenceBps |-> toBps(votes[i].confidencePct),
         reasoning |-> votes[i].reasoning,
         reasoningHash |-> ""]],
     consensusCount |-> consensusResult.consensusCount,
     evidenceHashA |-> dispute.evidenceHashA,
     evidenceHashB |-> dispute.evidenceHashB,
     executedAt |-> nowMs \div 1000,
     workflowRunId |-> keccak256(<<disputeId, nowMs, rnd>>)]

\* A faulty variant of resolveTail that still returns an (unsigned) output when
\* signing throws.
resolveTail_unsignedOutput(disputeId, dispute, votes, nowMs, rnd, strictHex) ==
    LET c == applyConsensus(votes)
        v == buildVerdict(disputeId, dispute, votes, c[2], nowMs, rnd)
        sig == signVerdict(v, OperatorKey, strictHex)
    IN  IF sig[1] = "threw"
        THEN [error |-> "none", consensus |-> <<c[2]>>, verdict |-> <<v>>,
              signature |-> <<>>,
              output |-> <<buildWorkflowOutput(v, <<"0x">>)>>]
        ELSE [error |-> "none", consensus |-> <<c[2]>>, verdict |-> <<v>>,
              signature |-> <<sig[2]>>,
              output |-> <<buildWorkflowOutput(v, sig[2])>>]

\* resolveDispute from the return of queryAllModels on: consensus, verdict,
\* signature, output.  error is "none" when it returns the output.
resolveTail(disputeId, dispute, votes, nowMs, rnd, strictHex) ==
    LET c == applyConsensus(votes)
    IN  IF c[1] = "threw"
        THEN [error |-> "consensus_threw", consensus |-> <<>>, verdict |-> <<>>,
              signature |-> <<>>, output |-> <<>>]
        ELSE LET v == buildVerdict(disputeId, dispute, votes, c[2], nowMs, rnd)
                 sig == signVerdict(v, OperatorKey, strictHex)
             IN  IF sig[1] = "threw"
                 THEN [error |-> "sign_threw", consensus |-> <<c[2]>>,
                       verdict |-> <<v>>, signature |-> <<>>, output |-> <<>>]
                 ELSE [error |-> "none", consensus |-> <<c[2]>>,
                       verdict |-> <<v>>, signature |-> <<sig[2]>>,
                       output |-> <<buildWorkflowOutput(v, sig[2])>>]

\* A faulty variant of mainTail that submits whether or not SUBMIT_ONCHAIN is set.
mainTail_alwaysSubmit(resolved, submitOnchain, strictHex) ==
    IF resolved.error # "none"
    THEN [pc |-> "failed", error |-> resolved.error, outputs |-> <<>>,
          submitArg |-> <<>>]
    ELSE [pc |-> "failed", error |-> "submit_threw", outputs |-> resolved.output,
          submitArg |-> <<EmptyObject>>]

\* main after resolveDispute has settled: writeOutput, then the direct
\* submission when SUBMIT_ONCHAIN is set.  main hands submitVerdictOnChain
\* `{} as WorkflowVerdict`.
mainTail(resolved, submitOnchain, strictHex) ==
    IF resolved.error # "none"
    THEN [pc |-> "failed", error |-> resolved.error, outputs |-> <<>>,
          submitArg |-> <<>>]
    ELSE IF ~submitOnchain
    THEN [pc |-> "done", error |-> "none", outputs |-> resolved.output,
          submitArg |-> <<>>]
    ELSE IF submitVerdictOnChain(EmptyObject, OperatorKey, strictHex)[1] = "threw"
    THEN [pc |-> "failed", error |-> "submit_threw", outputs |-> resolved.output,
          submitArg |-> <<EmptyObject>>]
    ELSE [pc |-> "broadcast", error |-> "none", outputs |-> resolved.output,
          submitArg |-> <<EmptyObject>>]

\* The responses a model gives within a run of the workflow: a rejected
\* request, text without JSON, and well-formed verdicts for each outcome, one
\* of them without a numeric confidence and one with a confidence above 100.
RunResponses ==
    {r \in ModelResponses :
        \/ r.transport = "reject"
        \/ r.body = "completion" /\ r.text.shape = "noJson"
        \/ /\ r.body = "completion" /\ r.text.shape = "json"
           /\ r.text.reasoning # ""
           /\ \/ r.text.verdict = "FAVOR_PARTY_A" /\ r.text.confidence \in {NaN, 875}
              \/ r.text.verdict = "FAVOR_PARTY_B" /\ r.text.confidence = 1500
              \/ r.text.verdict = "INSUFFICIENT_EVIDENCE" /\ r.text.confidence = 505}

(***************************************************************************)
(* One run of main().  A step is what runs between two awaits: the code    *)
(* from one response's arrival up to the next request or to the end.       *)
(***************************************************************************)
IdleInput ==
    [manualDisputeId |-> <<>>, pendingDisputes |-> <<>>, missingSecrets |-> {},
     submitOnchain |-> FALSE]

RunStart(in, at) ==
    /\ input = in
    /\ pc = at
    /\ error = "none"
    /\ reqs = [e \in Endpoints |-> 0]
    /\ disputeRec = <<>>
    /\ evPending = {}
    /\ evCheck = [p \in Parties |-> "none"]
    /\ evidences = [p \in Parties |-> <<>>]
    /\ modelPending = {}
    /\ modelResp = [i \in 1..3 |-> <<>>]
    /\ modelOrder = <<>>
    /\ parsedVotes = <<>>
    /\ consensusRes = <<>>
    /\ builtVerdict = <<>>
    /\ verdictSig = <<>>
    /\ outputs = <<>>
    /\ submitArg = <<>>

\* main up to its first await: the secrets check, the choice of the dispute,
\* and resolveDispute's request for the dispute record.
Main ==
    /\ pc = "start"
    /\ IF checkSecrets(input) # "ok"
       THEN /\ pc' = "failed"
            /\ error' = checkSecrets(input)
            /\ UNCHANGED <<reqs, outputs>>
       ELSE IF disputeIdsOf(input) = <<>>
       THEN /\ pc' = "done"
            /\ outputs' = Append(outputs, NoDisputesOutput)
            /\ UNCHANGED <<error, reqs>>
       ELSE /\ pc' = "fetchDispute"
            /\ reqs' = [reqs EXCEPT !["getDispute"] = @ + 1]
            /\ UNCHANGED <<error, outputs>>
    /\ UNCHANGED <<input, disputeRec, evPending, evCheck, evidences, modelPending,
                   modelResp, modelOrder, parsedVotes, consensusRes, builtVerdict, verdictSig,
                   submitArg>>
    /\ UNCHANGED <<cVars, pVars, hVars, sVars, eVars, dVars>>

\* The dispute record arrives: decode, validate, and issue both evidence
\* requests (fetchBothEvidences starts the two fetches before awaiting either).
DisputeResponse(resp) ==
    /\ pc = "fetchDispute"
    /\ LET d == fetchDisputeFromChain(disputeIdsOf(input)[1], resp)
       IN  IF d[1] = "threw"
           THEN /\ pc' = "failed"
                /\ error' = d[2]
                /\ UNCHANGED <<disputeRec, reqs, evPending>>
           ELSE /\ disputeRec' = <<d[2]>>
                /\ IF validateDispute(d[2]) # "ok"
                   THEN /\ pc' = "failed"
                        /\ error' = validateDispute(d[2])
                        /\ UNCHANGED <<reqs, evPending>>
                   ELSE /\ pc' = "fetchEvidence"
                        /\ evPending' = Parties
                        /\ reqs' = [e \in Endpoints |->
                                IF e \in {evidenceEndpoint(p) : p \in Parties}
                                THEN reqs[e] + 1 ELSE reqs[e]]
                        /\ UNCHANGED error
    /\ UNCHANGED <<input, evCheck, evidences, modelPending, modelResp, modelOrder,
                   parsedVotes,
                   consensusRes, builtVerdict, verdictSig, outputs, submitArg>>
    /\ UNCHANGED <<cVars, pVars, hVars, sVars, eVars, dVars>>

\* A faulty variant of promiseAllResolved that never resolves.
promiseAllResolved_never(pending) == FALSE

\* A faulty variant of promiseAllResolved that lets the first fulfilment through.
promiseAllResolved_first(pending) == TRUE

\* Whether `await Promise.all([...])` resumes: none of its promises is pending
\* (and none was rejected).
promiseAllResolved(pending) == pending = {}

\* One evidence response arrives and fetchEvidenceConfidential resumes.  A
\* rejection rejects Promise.all, resolveDispute and main, and the handler at
\* the entry point ends the process before the other response is looked at.
\* When both have resolved, resolveDispute builds the prompt and queryAllModels
\* issues the three model requests.
EvidenceResponse(p, resp) ==
    /\ pc = "fetchEvidence"
    /\ p \in evPending
    /\ evPending' = evPending \ {p}
    /\ evCheck' = [evCheck EXCEPT ![p] =
            IF ~hasContent(resp) THEN "none"
            ELSE IF keccak256(resp.content) = expectedHashOf(disputeRec[1], p)
            THEN "match" ELSE "mismatch"]
    /\ LET e == fetchEvidenceConfidential(p, expectedHashOf(disputeRec[1], p), resp)
       IN  IF e[1] = "threw"
           THEN /\ pc' = "failed"
                /\ error' = e[2]
                /\ UNCHANGED <<evidences, reqs, modelPending>>
           ELSE /\ evidences' = [evidences EXCEPT ![p] = <<e[2]>>]
                /\ IF promiseAllResolved(evPending')
                   THEN /\ pc' = "queryModels"
                        /\ modelPending' = 1..3
                        /\ reqs' = [e2 \in Endpoints |->
                                IF e2 \in {ModelIds[i] : i \in 1..3}
                                THEN reqs[e2] + 1 ELSE reqs[e2]]
                   ELSE UNCHANGED <<pc, reqs, modelPending>>
                /\ UNCHANGED error
    /\ UNCHANGED <<input, disputeRec, modelResp, modelOrder, parsedVotes,
                   consensusRes, builtVerdict, verdictSig, outputs, submitArg>>
    /\ UNCHANGED <<cVars, pVars, hVars, sVars, eVars, dVars>>

\* One model's response arrives and its call resolves.  With the last of the
\* three, queryAllModels parses them and the rest of the run follows without
\* another await: consensus, verdict, signature, output, writeOutput and the
\* call of submitVerdictOnChain.
ModelResponse(i, resp, nowMs, rnd, strictHex) ==
    /\ pc = "queryModels"
    /\ i \in modelPending
    /\ modelPending' = modelPending \ {i}
    /\ modelResp' = [modelResp EXCEPT ![i] = <<resp>>]
    /\ modelOrder' = Append(modelOrder, i)
    /\ IF callModel(ModelIds[i], resp)[1] = "threw"
       THEN /\ pc' = "failed"
            /\ error' = "model_call_rejected"
            /\ UNCHANGED <<parsedVotes, consensusRes, builtVerdict, verdictSig,
                           outputs, submitArg>>
       ELSE IF modelPending' # {}
       THEN UNCHANGED <<pc, error, parsedVotes, consensusRes, builtVerdict,
                        verdictSig, outputs, submitArg>>
       ELSE /\ parsedVotes' = queryAllModels([k \in 1..3 |-> modelResp'[k][1]])
            /\ \E resolved \in {resolveTail(disputeIdsOf(input)[1], disputeRec[1],
                                            parsedVotes', nowMs, rnd, strictHex)} :
                 /\ consensusRes' = resolved.consensus
                 /\ builtVerdict' = resolved.verdict
                 /\ verdictSig' = resolved.signature
                 /\ \E after \in {mainTail(resolved, input.submitOnchain, strictHex)} :
                      /\ outputs' = outputs \o after.outputs
                      /\ submitArg' = after.submitArg
                      /\ pc' = after.pc
                      /\ error' = after.error
    /\ UNCHANGED <<input, reqs, disputeRec, evPending, evCheck, evidences>>
    /\ UNCHANGED <<cVars, pVars, hVars, sVars, eVars, dVars>>

(***************************************************************************)
(* The consensus engine and the response parser called on their own.       *)
(***************************************************************************)
ConfLevels == 3

\* confidencePct values of the votes handed to the consensus engine.
Confidences == {(100 * k) \div ConfLevels : k \in 0..ConfLevels}

\* The votes parseModelResponse produces and the demo's explorer offers.
VoteValues == allowedVerdicts \cup {"CIRCUIT_BREAKER"}

VoteTriples ==
    {[i \in 1..3 |-> [modelId |-> ModelIds[i], vote |-> vs[i],
                      confidencePct |-> cs[i], reasoning |-> <<"reasoning">>,
                      parseSuccess |-> vs[i] # "CIRCUIT_BREAKER"]] :
        vs \in [1..3 -> VoteValues], cs \in [1..3 -> Confidences]}

ApplyConsensus ==
    /\ cCall = <<>>
    /\ cCall' = <<"applyConsensus">>
    /\ cResult' = <<applyConsensusEffect(cVotes).result>>
    /\ cVotes' = applyConsensusEffect(cVotes).callerList
    /\ UNCHANGED fResult
    /\ UNCHANGED <<pVars, wVars, hVars, sVars, eVars, dVars>>

SimulateWhatIf(modelIndex, hypotheticalVote) ==
    /\ cCall = <<>>
    /\ cCall' = <<"simulateWhatIf", modelIndex, hypotheticalVote>>
    /\ cResult' = <<simulateWhatIfEffect(cVotes, modelIndex, hypotheticalVote).result>>
    /\ cVotes' = simulateWhatIfEffect(cVotes, modelIndex, hypotheticalVote).callerList
    /\ UNCHANGED fResult
    /\ UNCHANGED <<pVars, wVars, hVars, sVars, eVars, dVars>>

\* The frontend's applyConsensus called on the same votes.
FrontendApplyConsensus ==
    /\ fResult = <<>>
    /\ fResult' = <<frontendApplyConsensus(cVotes)>>
    /\ UNCHANGED <<cVotes, cCall, cResult>>
    /\ UNCHANGED <<pVars, wVars, hVars, sVars, eVars, dVars>>

ParseOne ==
    /\ pVerdict = <<>>
    /\ pVerdict' = <<parseModelResponse(ModelIds[pModel],
                                        callModel(ModelIds[pModel], pResp)[2])>>
    /\ UNCHANGED <<pModel, pResp>>
    /\ UNCHANGED <<cVars, wVars, hVars, sVars, eVars, dVars>>

IdleConsensus == cVotes = <<>> /\ cCall = <<>> /\ cResult = <<>> /\ fResult = <<>>
IdleResponse == CHOOSE r \in ModelResponses : r.transport = "reject"

IdleParse == pModel = 1 /\ pResp = IdleResponse /\ pVerdict = <<>>

IdleHash == hVerdicts = <<>> /\ hStrict = TRUE /\ hDigests = <<>>

RpcMethods == {"eth_getTransactionCount", "eth_gasPrice", "eth_sendRawTransaction"}

IdleSubmit ==
    /\ sPc = "off"
    /\ sVerdict = <<>>
    /\ sStrict = TRUE
    /\ sReqs = [m \in RpcMethods |-> 0]
    /\ sPending = {}
    /\ sResp = [m \in RpcMethods |-> <<>>]
    /\ sNonce = <<>>
    /\ sGasPrice = <<>>
    /\ sRawTx = <<>>
    /\ sResult = <<>>

IdleEvidence ==
    /\ eStore = [p \in Parties |-> <<>>]
    /\ eReturned = [p \in Parties |-> <<>>]
    /\ eCommitted = [p \in Parties |-> <<>>]
    /\ eFetched = [p \in Parties |-> <<>>]
    /\ eReads = [p \in Parties |-> 0]
    /\ eLast = [req |-> "none", party |-> "-", wellFormed |-> FALSE, stored |-> FALSE,
                status |-> 0, disputes |-> <<>>]

\* The demo page as it mounts: the initial useState values and useRef(false).
IdleDemo ==
    /\ dPhase = "idle"
    /\ dStep = 0
    /\ dRevealed = 0
    /\ dTs = {}
    /\ dCancel = FALSE
    /\ dRuns = <<>>
    /\ dResetTimers = <<>>

(***************************************************************************)
(* Specifications.                                                         *)
(***************************************************************************)
Init ==
    /\ \E in \in Inputs : RunStart(in, "start")
    /\ IdleConsensus
    /\ IdleParse
    /\ IdleHash
    /\ IdleSubmit
    /\ IdleEvidence
    /\ IdleDemo

Next ==
    \/ Main
    \/ \E resp \in DisputeResponses : DisputeResponse(resp)
    \/ \E p \in Parties, resp \in EvidenceResponses : EvidenceResponse(p, resp)
    \/ \E i \in 1..3, resp \in RunResponses, nowMs \in NowMs, rnd \in Rands,
          strictHex \in BOOLEAN :
            ModelResponse(i, resp, nowMs, rnd, strictHex)

Spec == Init /\ [][Next]_vars

\* Some model call receives its answer.
ModelAnswered ==
    \E i \in 1..3, resp \in RunResponses, nowMs \in NowMs, rnd \in Rands,
       strictHex \in BOOLEAN :
        ModelResponse(i, resp, nowMs, rnd, strictHex)

\* Weak fairness of ModelAnswered with its enabling condition written out: a
\* model answer can arrive exactly while the run waits in queryModels with a
\* request in flight.
ModelRequestsAnswered ==
    \/ []<>(pc # "queryModels" \/ modelPending = {})
    \/ []<><<ModelAnswered>>_vars

\* A run in which every request that is out is answered, by a response or
\* by an error (both are among the responses the actions draw from), and in
\* which main's synchronous start is executed.
SpecLive ==
    /\ Spec
    /\ WF_vars(Main)
    /\ WF_vars(\E resp \in DisputeResponses : DisputeResponse(resp))
    /\ WF_vars(\E p \in Parties, resp \in EvidenceResponses : EvidenceResponse(p, resp))
    /\ ModelRequestsAnswered

InitConsensus ==
    /\ cVotes \in VoteTriples
    /\ cCall = <<>>
    /\ cResult = <<>>
    /\ fResult = <<>>
    /\ IdleParse
    /\ IdleHash
    /\ IdleSubmit
    /\ IdleEvidence
    /\ IdleDemo
    /\ RunStart(IdleInput, "off")

NextConsensus ==
    \/ ApplyConsensus
    \/ \E modelIndex \in 0..2, v \in VoteValues : SimulateWhatIf(modelIndex, v)
    \/ FrontendApplyConsensus

SpecConsensus == InitConsensus /\ [][NextConsensus]_vars

InitParse ==
    /\ pModel \in 1..3
    /\ pResp \in ModelResponses
    /\ pVerdict = <<>>
    /\ IdleConsensus
    /\ IdleHash
    /\ IdleSubmit
    /\ IdleEvidence
    /\ IdleDemo
    /\ RunStart(IdleInput, "off")

NextParse == ParseOne

SpecParse == InitParse /\ [][NextParse]_vars

(***************************************************************************)
(* computeVerdictHash called on its own, on two verdicts that are equal or *)
(* differ in one field or in the order of the votes.                       *)
(***************************************************************************)
MaxHashCalls == 3

\* A verdict as resolveDispute builds it, with three different votes.
BaseVerdict ==
    [disputeId |-> "0xd0",
     finalOutcome |-> "FAVOR_PARTY_A",
     modelVotes |->
        <<[modelId |-> ModelIds[1], vote |-> "FAVOR_PARTY_A", confidenceBps |-> 8800,
           reasoning |-> <<"A delivered">>, reasoningHash |-> ""],
          [modelId |-> ModelIds[2], vote |-> "FAVOR_PARTY_A", confidenceBps |-> 5100,
           reasoning |-> <<"B did not pay">>, reasoningHash |-> ""],
          [modelId |-> ModelIds[3], vote |-> "FAVOR_PARTY_B", confidenceBps |-> 10000,
           reasoning |-> <<"No reasoning provided">>, reasoningHash |-> ""]>>,
     consensusCount |-> 2,
     evidenceHashA |-> keccak256(Committed["A"]),
     evidenceHashB |-> keccak256(Committed["B"]),
     executedAt |-> 1,
     workflowRunId |-> keccak256(<<"0xd0", 1500, 1>>)]

\* The verdicts that differ from BaseVerdict in the field named, for vote k.
VoteVariants(k) ==
    {[BaseVerdict EXCEPT !.modelVotes[k].modelId = "gpt-4o-mini"],
     [BaseVerdict EXCEPT !.modelVotes[k].vote = "INSUFFICIENT_EVIDENCE"],
     [BaseVerdict EXCEPT !.modelVotes[k].confidenceBps = 0],
     [BaseVerdict EXCEPT !.modelVotes[k].reasoning = <<"another reasoning">>],
     [BaseVerdict EXCEPT !.modelVotes[k].reasoningHash = "0xabc"]}

Permutations3 == {q \in [1..3 -> 1..3] : \A i, j \in 1..3 : q[i] = q[j] => i = j}

HashVerdicts ==
    {BaseVerdict,
     [BaseVerdict EXCEPT !.disputeId = "0xd1"],
     [BaseVerdict EXCEPT !.finalOutcome = "NO_CONSENSUS"],
     [BaseVerdict EXCEPT !.consensusCount = 3],
     [BaseVerdict EXCEPT !.evidenceHashA = keccak256("tampered")],
     [BaseVerdict EXCEPT !.evidenceHashB = keccak256("tampered")],
     [BaseVerdict EXCEPT !.evidenceHashA = BaseVerdict.evidenceHashB,
                         !.evidenceHashB = BaseVerdict.evidenceHashA],
     [BaseVerdict EXCEPT !.executedAt = 2],
     [BaseVerdict EXCEPT !.workflowRunId = keccak256(<<"0xd0", 2500, 1>>)]}
    \cup UNION {VoteVariants(k) : k \in 1..3}
    \cup {[BaseVerdict EXCEPT !.modelVotes = [i \in 1..3 |-> BaseVerdict.modelVotes[q[i]]]] :
            q \in Permutations3}

InitHash ==
    /\ hVerdicts \in HashVerdicts \X HashVerdicts
    /\ hStrict \in BOOLEAN
    /\ hDigests = <<>>
    /\ IdleSubmit
    /\ IdleEvidence
    /\ IdleDemo
    /\ IdleConsensus
    /\ IdleParse
    /\ RunStart(IdleInput, "off")

HashVerdict(which) ==
    /\ Len(hDigests) < MaxHashCalls
    /\ hDigests' = Append(hDigests, <<which, computeVerdictHash(hVerdicts[which], hStrict)>>)
    /\ UNCHANGED <<hVerdicts, hStrict>>
    /\ UNCHANGED <<cVars, pVars, wVars, sVars, eVars, dVars>>

NextHash == \E which \in 1..2 : HashVerdict(which)

SpecHash == InitHash /\ [][NextHash]_vars

(***************************************************************************)
(* submitVerdictOnChain called on its own, with the answers of the RPC     *)
(* node to its three requests.                                             *)
(***************************************************************************)
MaxNonce == 2
MaxGasPrice == 5

VerifierContract == "0xverifier"
ChainId == 11155111
GAS_LIMIT == 500000

\* The verdicts handed to the call: a complete one, and one whose first vote
\* has no numeric confidence.
SubmitVerdicts ==
    {BaseVerdict, [BaseVerdict EXCEPT !.modelVotes[1].confidenceBps = NaN]}

RpcErrorMessages == {"rate limit exceeded", "insufficient funds for gas * price + value"}

\* What the node answers to eth_getTransactionCount and eth_gasPrice: the
\* request is rejected, the node reports an error, or it returns a quantity.
NonceResponses ==
    [kind : {"reject"}, value : {0}, message : {"timeout"}]
    \cup [kind : {"error"}, value : {0}, message : RpcErrorMessages]
    \cup [kind : {"result"}, value : 0..MaxNonce, message : {""}]

GasPriceResponses ==
    [kind : {"reject"}, value : {0}, message : {"timeout"}]
    \cup [kind : {"error"}, value : {0}, message : RpcErrorMessages]
    \cup [kind : {"result"}, value : 1..MaxGasPrice, message : {""}]

\* What the node answers to eth_sendRawTransaction; the hash it returns is
\* the hash of the raw transaction it was sent.
BroadcastResponses ==
    [kind : {"reject"}, message : {"timeout"}]
    \cup [kind : {"error"}, message : RpcErrorMessages]
    \cup [kind : {"result"}, message : {""}]

\* getNonce from the response on.  The body's error member is not read:
\* json.result is undefined and parseInt(undefined, 16) is NaN.
getNonce(resp) ==
    IF resp.kind = "reject" THEN <<"threw", <<resp.message>>>>
    ELSE IF resp.kind = "error" THEN <<"ok", NaN>>
    ELSE <<"ok", resp.value>>

\* getGasPrice from the response on: BigInt(json.result) * 120n / 100n, and
\* BigInt(undefined) throws a TypeError.
getGasPrice(resp) ==
    IF resp.kind = "reject" THEN <<"threw", <<resp.message>>>>
    ELSE IF resp.kind = "error"
    THEN <<"threw", <<"TypeError: Cannot convert undefined to a BigInt">>>>
    ELSE <<"ok", (resp.value * 120) \div 100>>

\* signTransaction: rlpEncode calls BigInt on the nonce, which throws a
\* RangeError for NaN; otherwise the EIP-155 signature over the fields and
\* the signed transaction.
signTransaction(tx, privateKeyHex) ==
    IF tx.nonce = NaN
    THEN <<"threw", <<"RangeError: The number NaN cannot be converted to a BigInt because it is not an integer">>>>
    ELSE LET fields == <<tx.nonce, tx.gasPrice, tx.gasLimit, tx.to, 0, tx.data>>
             msgHash == keccak256(<<"rlp", fields \o <<tx.chainId, 0, 0>>>>)
         IN  <<"ok", <<"rlp", fields \o <<"sig", privateKeyHex, msgHash>>>>>>

\* Steps 5 and 6 of submitVerdictOnChain up to the broadcast request.
buildAndSignTx(verdict, nonce, gasPrice, strictHex) ==
    signTransaction([nonce |-> nonce,
                     gasPrice |-> gasPrice,
                     gasLimit |-> GAS_LIMIT,
                     to |-> VerifierContract,
                     data |-> submitVerdictOnChain(verdict, OperatorKey, strictHex)[2],
                     chainId |-> ChainId],
                    OperatorKey)

\* The end of submitVerdictOnChain, from the broadcast response on.
broadcastResult(resp, rawTx) ==
    IF resp.kind = "reject" THEN <<"threw", <<resp.message>>>>
    ELSE IF resp.kind = "error" THEN <<"threw", <<"Broadcast failed: ", resp.message>>>>
    ELSE <<"ok", keccak256(rawTx)>>

\* Steps 1 to 4: sign the verdict, encode the calldata, and start getNonce
\* and getGasPrice inside Promise.all; both requests are sent before either
\* response is awaited.
SubmitStart ==
    /\ sPc = "start"
    /\ \E begun \in {submitVerdictOnChain(sVerdict, OperatorKey, sStrict)} :
        IF begun[1] = "threw"
        THEN /\ sPc' = "failed"
             /\ sResult' = <<"threw", <<begun[2]>>>>
             /\ UNCHANGED <<sReqs, sPending>>
        ELSE /\ sPc' = "awaitBoth"
             /\ sReqs' = [sReqs EXCEPT !["eth_getTransactionCount"] = @ + 1,
                                       !["eth_gasPrice"] = @ + 1]
             /\ sPending' = {"eth_getTransactionCount", "eth_gasPrice"}
             /\ UNCHANGED sResult
    /\ UNCHANGED <<sVerdict, sStrict, sResp, sNonce, sGasPrice, sRawTx>>
    /\ UNCHANGED <<cVars, pVars, wVars, hVars, eVars, dVars>>

\* Promise.all has resolved with nonce and gasPrice: build and sign the
\* transaction and send it, or fail where signTransaction throws.
SendTransaction(nonce, gasPrice) ==
    \E signed \in {buildAndSignTx(sVerdict, nonce, gasPrice, sStrict)} :
        IF signed[1] = "threw"
        THEN /\ sPc' = "failed"
             /\ sResult' = signed
             /\ sPending' = {}
             /\ UNCHANGED <<sReqs, sRawTx>>
        ELSE /\ sPc' = "awaitBroadcast"
             /\ sRawTx' = <<signed[2]>>
             /\ sReqs' = [sReqs EXCEPT !["eth_sendRawTransaction"] = @ + 1]
             /\ sPending' = {"eth_sendRawTransaction"}
             /\ UNCHANGED sResult

\* The response to eth_getTransactionCount arrives.  After the call has
\* failed the response settles getNonce and nothing else.
NonceResponse(resp) ==
    /\ "eth_getTransactionCount" \in sPending
    /\ IF sPc # "awaitBoth"
       THEN /\ sPending' = sPending \ {"eth_getTransactionCount"}
            /\ UNCHANGED <<sPc, sReqs, sResp, sNonce, sRawTx, sResult>>
       ELSE /\ sResp' = [sResp EXCEPT !["eth_getTransactionCount"] = <<resp>>]
            /\ \E got \in {getNonce(resp)} :
                IF got[1] = "threw"
                THEN /\ sPc' = "failed"
                     /\ sResult' = got
                     /\ sPending' = sPending \ {"eth_getTransactionCount"}
                     /\ UNCHANGED <<sReqs, sNonce, sRawTx>>
                ELSE /\ sNonce' = <<got[2]>>
                     /\ IF sGasPrice = <<>>
                        THEN /\ sPending' = sPending \ {"eth_getTransactionCount"}
                             /\ UNCHANGED <<sPc, sReqs, sRawTx, sResult>>
                        ELSE SendTransaction(got[2], sGasPrice[1])
    /\ UNCHANGED <<sVerdict, sStrict, sGasPrice>>
    /\ UNCHANGED <<cVars, pVars, wVars, hVars, eVars, dVars>>

\* The response to eth_gasPrice arrives.
GasPriceResponse(resp) ==
    /\ "eth_gasPrice" \in sPending
    /\ IF sPc # "awaitBoth"
       THEN /\ sPending' = sPending \ {"eth_gasPrice"}
            /\ UNCHANGED <<sPc, sReqs, sResp, sGasPrice, sRawTx, sResult>>
       ELSE /\ sResp' = [sResp EXCEPT !["eth_gasPrice"] = <<resp>>]
            /\ \E got \in {getGasPrice(resp)} :
                IF got[1] = "threw"
                THEN /\ sPc' = "failed"
                     /\ sResult' = got
                     /\ sPending' = sPending \ {"eth_gasPrice"}
                     /\ UNCHANGED <<sReqs, sGasPrice, sRawTx>>
                ELSE /\ sGasPrice' = <<got[2]>>
                     /\ IF sNonce = <<>>
                        THEN /\ sPending' = sPending \ {"eth_gasPrice"}
                             /\ UNCHANGED <<sPc, sReqs, sRawTx, sResult>>
                        ELSE SendTransaction(sNonce[1], got[2])
    /\ UNCHANGED <<sVerdict, sStrict, sNonce>>
    /\ UNCHANGED <<cVars, pVars, wVars, hVars, eVars, dVars>>

\* The response to eth_sendRawTransaction arrives.
BroadcastResponse(resp) ==
    /\ sPc = "awaitBroadcast"
    /\ "eth_sendRawTransaction" \in sPending
    /\ sPending' = {}
    /\ sResp' = [sResp EXCEPT !["eth_sendRawTransaction"] = <<resp>>]
    /\ sResult' = broadcastResult(resp, sRawTx[1])
    /\ sPc' = IF resp.kind = "result" THEN "done" ELSE "failed"
    /\ UNCHANGED <<sVerdict, sStrict, sReqs, sNonce, sGasPrice, sRawTx>>
    /\ UNCHANGED <<cVars, pVars, wVars, hVars, eVars, dVars>>

InitSubmit ==
    /\ sPc = "start"
    /\ sVerdict \in SubmitVerdicts
    /\ sStrict \in BOOLEAN
    /\ sReqs = [m \in RpcMethods |-> 0]
    /\ sPending = {}
    /\ sResp = [m \in RpcMethods |-> <<>>]
    /\ sNonce = <<>>
    /\ sGasPrice = <<>>
    /\ sRawTx = <<>>
    /\ sResult = <<>>
    /\ IdleConsensus
    /\ IdleParse
    /\ IdleHash
    /\ IdleEvidence
    /\ IdleDemo
    /\ RunStart(IdleInput, "off")

NextSubmit ==
    \/ SubmitStart
    \/ \E resp \in NonceResponses : NonceResponse(resp)
    \/ \E resp \in GasPriceResponses : GasPriceResponse(resp)
    \/ \E resp \in BroadcastResponses : BroadcastResponse(resp)

SpecSubmit == InitSubmit /\ [][NextSubmit]_vars

(***************************************************************************)
(* The evidence server, the parties that submit evidence and commit a hash *)
(* on-chain, and the workflow's fetch of the stored evidence.              *)
(***************************************************************************)
EvidenceDisputeId == "0xd0"

MaxGets == 2

\* The server's function named keccak256: SHA-256 of the content, in hex
\* with a 0x prefix.
serverKeccak256(content) == <<"sha256", content>>

deriveKey(disputeId, partyLabel) == <<"sha256", "SERVER_SECRET", disputeId, partyLabel>>

\* AES-256-GCM under a key: decrypt returns the plaintext under the key that
\* encrypted it and throws under any other.
encrypt(plaintext, key) == [encrypted |-> <<"aes-256-gcm", key, plaintext>>]

decrypt(stored, key) ==
    IF stored.encryptedContent[2] = key
    THEN <<"ok", stored.encryptedContent[3]>>
    ELSE <<"threw", "Unsupported state or unable to authenticate data">>

\* String.prototype.toLowerCase on the addresses at hand.
toLowerCase(address) == IF address = "0xABc1" THEN "0xabc1" ELSE address

\* The bodies a party posts: not JSON, or JSON with a content and a party
\* address, either of which may be missing.
SubmitBodies ==
    [json : {FALSE}, content : {""}, partyAddress : {""}]
    \cup [json : {TRUE}, content : {"", "evidence of A", "evidence of B"},
          partyAddress : {"", "0xABc1", "0xdef2"}]

\* A faulty variant of handleSubmitEvidence that stores every complete
\* submission, whether or not the party has evidence stored.
handleSubmitEvidence_overwrite(stored, disputeId, partyLabel, body) ==
    IF ~body.json THEN [status |-> 400, store |-> stored, contentHash |-> <<>>]
    ELSE IF body.content = "" \/ body.partyAddress = ""
    THEN [status |-> 400, store |-> stored, contentHash |-> <<>>]
    ELSE [status |-> 200,
          store |-> <<[encryptedContent |->
                          encrypt(body.content, deriveKey(disputeId, partyLabel)).encrypted,
                       contentHash |-> serverKeccak256(body.content),
                       partyAddress |-> toLowerCase(body.partyAddress),
                       consumed |-> FALSE]>>,
          contentHash |-> <<serverKeccak256(body.content)>>]

\* handleSubmitEvidence: the status code, the StoredEvidence afterwards (or
\* <<>>) and the contentHash in the answer (or <<>>).
handleSubmitEvidence(stored, disputeId, partyLabel, body) ==
    IF ~body.json THEN [status |-> 400, store |-> stored, contentHash |-> <<>>]
    ELSE IF body.content = "" \/ body.partyAddress = ""
    THEN [status |-> 400, store |-> stored, contentHash |-> <<>>]
    ELSE IF stored # <<>> THEN [status |-> 409, store |-> stored, contentHash |-> <<>>]
    ELSE [status |-> 200,
          store |-> <<[encryptedContent |->
                          encrypt(body.content, deriveKey(disputeId, partyLabel)).encrypted,
                       contentHash |-> serverKeccak256(body.content),
                       partyAddress |-> toLowerCase(body.partyAddress),
                       consumed |-> FALSE]>>,
          contentHash |-> <<serverKeccak256(body.content)>>]

\* handleFetchEvidence: the StoredEvidence afterwards and the response the
\* client's HTTP capability receives.
handleFetchEvidence(stored, disputeId, partyLabel) ==
    IF stored = <<>>
    THEN [store |-> stored,
          resp |-> [transport |-> "ok", statusCode |-> 404, body |-> "none", content |-> ""]]
    ELSE LET content == decrypt(stored[1], deriveKey(disputeId, partyLabel))
         IN  IF content[1] = "threw"
             THEN [store |-> stored,
                   resp |-> [transport |-> "ok", statusCode |-> 500, body |-> "none",
                             content |-> ""]]
             ELSE [store |-> <<[stored[1] EXCEPT !.consumed = TRUE]>>,
                   resp |-> [transport |-> "ok", statusCode |-> 200, body |-> "json",
                             content |-> content[2]]]

\* A faulty variant of handleGetPendingDisputes that lists the dispute while
\* the evidence of one party is unread.
handleGetPendingDisputes_eitherUnread(storeOfDispute, disputeId) ==
    IF /\ \A p \in Parties : storeOfDispute[p] # <<>>
       /\ \E p \in Parties : ~storeOfDispute[p][1].consumed
    THEN <<disputeId>>
    ELSE <<>>

\* handleGetPendingDisputes: the ids of the disputes listed.  The store holds
\* an entry for the dispute once a submission was accepted.
handleGetPendingDisputes(storeOfDispute, disputeId) ==
    IF /\ \A p \in Parties : storeOfDispute[p] # <<>>
       /\ \A p \in Parties : ~storeOfDispute[p][1].consumed
    THEN <<disputeId>>
    ELSE <<>>

\* One request and its answer, as the server's last exchange.
Exchange(req, party, wellFormed, stored, status, disputes) ==
    [req |-> req, party |-> party, wellFormed |-> wellFormed, stored |-> stored,
     status |-> status, disputes |-> disputes]

\* POST /api/evidence/:disputeId/:party by party p; requireAuth answers 401
\* before the handler is reached.
SubmitEvidence(p, authorized, body) ==
    /\ IF ~authorized
       THEN /\ eLast' = Exchange("POST", p, FALSE, eStore[p] # <<>>, 401, <<>>)
            /\ UNCHANGED <<eStore, eReturned>>
       ELSE \E answer \in {handleSubmitEvidence(eStore[p], EvidenceDisputeId, p, body)} :
            /\ eStore' = [eStore EXCEPT ![p] = answer.store]
            /\ eReturned' = IF answer.status = 200
                            THEN [eReturned EXCEPT ![p] = answer.contentHash]
                            ELSE eReturned
            /\ eLast' = Exchange("POST", p,
                                 body.json /\ body.content # "" /\ body.partyAddress # "",
                                 eStore[p] # <<>>, answer.status, <<>>)
    /\ UNCHANGED <<eCommitted, eFetched, eReads>>
    /\ UNCHANGED <<cVars, pVars, wVars, hVars, sVars, dVars>>

\* Party p commits an evidence hash on-chain: the contentHash the server
\* returned ("Submit this hash on-chain as your evidence commitment"), or a
\* keccak-256 of the content computed by the party.
CommitEvidenceHash(p, own) ==
    /\ eReturned[p] # <<>>
    /\ eCommitted[p] = <<>>
    /\ eCommitted' = [eCommitted EXCEPT ![p] =
                        IF own THEN <<keccak256(eStore[p][1].encryptedContent[3])>>
                        ELSE eReturned[p]]
    /\ UNCHANGED <<eStore, eReturned, eFetched, eReads, eLast>>
    /\ UNCHANGED <<cVars, pVars, wVars, hVars, sVars, dVars>>

\* GET /api/evidence/:disputeId/:party by a client with or without the key.
GetEvidence(p, authorized) ==
    /\ IF ~authorized
       THEN /\ eLast' = Exchange("GET", p, FALSE, eStore[p] # <<>>, 401, <<>>)
            /\ UNCHANGED <<eStore, eReads>>
       ELSE \E answer \in {handleFetchEvidence(eStore[p], EvidenceDisputeId, p)} :
            /\ answer.resp.statusCode = 200 => eReads[p] < MaxGets
            /\ eStore' = [eStore EXCEPT ![p] = answer.store]
            /\ eReads' = IF answer.resp.statusCode = 200
                         THEN [eReads EXCEPT ![p] = @ + 1]
                         ELSE eReads
            /\ eLast' = Exchange("GET", p, TRUE, eStore[p] # <<>>,
                                 answer.resp.statusCode, <<>>)
    /\ UNCHANGED <<eReturned, eCommitted, eFetched>>
    /\ UNCHANGED <<cVars, pVars, wVars, hVars, sVars, dVars>>

\* The workflow fetches the evidence of party p of a dispute whose
\* commitment is on-chain: GET /api/evidence/:disputeId/:party answered by
\* handleFetchEvidence, then the integrity check of fetchEvidenceConfidential.
FetchEvidence(p) ==
    /\ eCommitted[p] # <<>>
    /\ eFetched[p] = <<>>
    /\ eReads[p] < MaxGets
    /\ \E answer \in {handleFetchEvidence(eStore[p], EvidenceDisputeId, p)} :
        /\ eStore' = [eStore EXCEPT ![p] = answer.store]
        /\ eReads' = IF answer.resp.statusCode = 200
                     THEN [eReads EXCEPT ![p] = @ + 1]
                     ELSE eReads
        /\ eLast' = Exchange("GET", p, TRUE, eStore[p] # <<>>,
                             answer.resp.statusCode, <<>>)
        /\ eFetched' = [eFetched EXCEPT ![p] =
                           <<fetchEvidenceConfidential(p, eCommitted[p][1], answer.resp)>>]
    /\ UNCHANGED <<eReturned, eCommitted>>
    /\ UNCHANGED <<cVars, pVars, wVars, hVars, sVars, dVars>>

\* GET /api/disputes/pending.
ListPending(authorized) ==
    /\ eLast' = IF authorized
                THEN Exchange("LIST", "-", TRUE, FALSE, 200,
                              handleGetPendingDisputes(eStore, EvidenceDisputeId))
                ELSE Exchange("LIST", "-", FALSE, FALSE, 401, <<>>)
    /\ UNCHANGED <<eStore, eReturned, eCommitted, eFetched, eReads>>
    /\ UNCHANGED <<cVars, pVars, wVars, hVars, sVars, dVars>>

InitEvidence ==
    /\ IdleEvidence
    /\ IdleDemo
    /\ IdleConsensus
    /\ IdleParse
    /\ IdleHash
    /\ IdleSubmit
    /\ RunStart(IdleInput, "off")

NextEvidence ==
    \/ \E p \in Parties, authorized \in BOOLEAN, body \in SubmitBodies :
            SubmitEvidence(p, authorized, body)
    \/ \E p \in Parties, own \in BOOLEAN : CommitEvidenceHash(p, own)
    \/ \E p \in Parties, authorized \in BOOLEAN : GetEvidence(p, authorized)
    \/ \E p \in Parties : FetchEvidence(p)
    \/ \E authorized \in BOOLEAN : ListPending(authorized)

SpecEvidence == InitEvidence /\ [][NextEvidence]_vars

(***************************************************************************)
(* The demo page: launch, reset and their timers.  Time passes in ticks of *)
(* ResetDelay milliseconds, the shortest delay the page sets.              *)
(***************************************************************************)
MaxLaunches == 2

\* STEP_LABELS.length
StepCount == 10

\* Milliseconds the loop of launch waits before each step.
DELAYS == <<800, 900, 1100, 700, 1300, 1500, 1500, 1500, 1200, 1400>>

\* Milliseconds after which reset clears the cancel flag again.
ResetDelay == 50

Ticks(ms) == ms \div ResetDelay

\* A call of launch suspended in `await new Promise(r => setTimeout(r,
\* DELAYS[i]))`: its loop index, the ticks left on its timer, its local
\* modelReveal, and whether it has not returned yet.
Run(i, wait, modelReveal, live) ==
    [i |-> i, wait |-> wait, modelReveal |-> modelReveal, live |-> live]

\* launch, up to its first await.  The button is disabled while phase is
\* 'running'.
Launch ==
    /\ dPhase # "running"
    /\ Len(dRuns) < MaxLaunches
    /\ dCancel' = FALSE
    /\ dPhase' = "running"
    /\ dStep' = 0
    /\ dRevealed' = 0
    /\ dTs' = {}
    /\ dRuns' = Append(dRuns, Run(0, Ticks(DELAYS[1]), 0, TRUE))
    /\ UNCHANGED dResetTimers
    /\ UNCHANGED <<cVars, pVars, wVars, hVars, sVars, eVars>>

\* reset.  Its button is rendered while phase is not 'idle'.
Reset ==
    /\ dPhase # "idle"
    /\ dCancel' = TRUE
    /\ dPhase' = "idle"
    /\ dStep' = 0
    /\ dRevealed' = 0
    /\ dTs' = {}
    /\ dResetTimers' = Append(dResetTimers, Ticks(ResetDelay))
    /\ UNCHANGED dRuns
    /\ UNCHANGED <<cVars, pVars, wVars, hVars, sVars, eVars>>

\* The timer set by reset fires: cancelRef.current = false.  The timers of
\* reset all have the same delay, so they fire in the order they were set.
ResetTimerFires ==
    /\ dResetTimers # <<>>
    /\ Head(dResetTimers) = 0
    /\ dCancel' = FALSE
    /\ dResetTimers' = Tail(dResetTimers)
    /\ UNCHANGED <<dPhase, dStep, dRevealed, dTs, dRuns>>
    /\ UNCHANGED <<cVars, pVars, wVars, hVars, sVars, eVars>>

\* The step timer of run r fires and launch resumes: it returns if the cancel
\* flag is set; otherwise it shows step n, stamps it, reveals a model verdict
\* at steps 6 to 8, and either waits for the next step or, after the last
\* one, sets phase to 'complete'.
StepTimerFires(r) ==
    /\ dRuns[r].live
    /\ dRuns[r].wait = 0
    /\ LET n == dRuns[r].i + 1
           modelReveal == IF n >= 6 /\ n <= 8 THEN dRuns[r].modelReveal + 1
                          ELSE dRuns[r].modelReveal
       IN  IF dCancel
           THEN /\ dRuns' = [dRuns EXCEPT ![r].live = FALSE]
                /\ UNCHANGED <<dPhase, dStep, dRevealed, dTs>>
           ELSE /\ dStep' = n
                /\ dTs' = dTs \cup {n}
                /\ dRevealed' = IF n >= 6 /\ n <= 8 THEN modelReveal ELSE dRevealed
                /\ IF n < StepCount
                   THEN /\ dRuns' = [dRuns EXCEPT
                                ![r] = Run(n, Ticks(DELAYS[n + 1]), modelReveal, TRUE)]
                        /\ UNCHANGED dPhase
                   ELSE /\ dRuns' = [dRuns EXCEPT ![r] = Run(n, 0, modelReveal, FALSE)]
                        /\ dPhase' = "complete"
    /\ UNCHANGED <<dCancel, dResetTimers>>
    /\ UNCHANGED <<cVars, pVars, wVars, hVars, sVars, eVars>>

\* Whether a timer is due.
TimerDue ==
    \/ \E r \in 1..Len(dRuns) : dRuns[r].live /\ dRuns[r].wait = 0
    \/ \E k \in 1..Len(dResetTimers) : dResetTimers[k] = 0

TimerPending ==
    \/ \E r \in 1..Len(dRuns) : dRuns[r].live
    \/ dResetTimers # <<>>

\* ResetDelay milliseconds pass.  The timers that are due fire first.
Tick ==
    /\ TimerPending
    /\ ~TimerDue
    /\ dRuns' = [r \in 1..Len(dRuns) |->
                    IF dRuns[r].live THEN [dRuns[r] EXCEPT !.wait = @ - 1]
                    ELSE dRuns[r]]
    /\ dResetTimers' = [k \in 1..Len(dResetTimers) |-> dResetTimers[k] - 1]
    /\ UNCHANGED <<dPhase, dStep, dRevealed, dTs, dCancel>>
    /\ UNCHANGED <<cVars, pVars, wVars, hVars, sVars, eVars>>

InitDemo ==
    /\ IdleDemo
    /\ IdleEvidence
    /\ IdleConsensus
    /\ IdleParse
    /\ IdleHash
    /\ IdleSubmit
    /\ RunStart(IdleInput, "off")

NextDemo ==
    \/ Launch
    \/ Reset
    \/ ResetTimerFires
    \/ \E r \in 1..Len(dRuns) : StepTimerFires(r)
    \/ Tick

SpecDemo == InitDemo /\ [][NextDemo]_vars

(***************************************************************************)
(* Properties of the consensus engine (SpecConsensus).                     *)
(***************************************************************************)
Applied == cCall = <<"applyConsensus">>

Returned == cResult[1][1] = "ok"

Result == cResult[1][2]

VotersOf(o) == {i \in 1..3 : cVotes[i].vote = o}

SumOfConfidences(S) ==
    (IF 1 \in S THEN cVotes[1].confidencePct ELSE 0)
    + (IF 2 \in S THEN cVotes[2].confidencePct ELSE 0)
    + (IF 3 \in S THEN cVotes[3].confidencePct ELSE 0)

\* b is the integer nearest to 100 * sum / n, halves rounded up.
IsRoundedMeanBps(b, sum, n) ==
    /\ 2 * n * b <= 200 * sum + n
    /\ 200 * sum + n < 2 * n * b + 2 * n

\* C1: whenever at least one of the three votes is CIRCUIT_BREAKER,
\* applyConsensus returns CIRCUIT_BREAKER, whatever the other votes are, with
\* consensusCount the number of CIRCUIT_BREAKER votes and aggregate confidence 0.
C1_CircuitBreakerOverrides ==
    (Applied /\ VotersOf("CIRCUIT_BREAKER") # {}) =>
        /\ Returned
        /\ Result.finalOutcome = "CIRCUIT_BREAKER"
        /\ Result.consensusCount = Cardinality(VotersOf("CIRCUIT_BREAKER"))
        /\ Result.aggregateConfidenceBps = 0

\* Two models agree on FAVOR_PARTY_A, the third failed: the breaker wins.
C1_Witness ==
    /\ Applied
    /\ Cardinality(VotersOf("FAVOR_PARTY_A")) = 2
    /\ Cardinality(VotersOf("CIRCUIT_BREAKER")) = 1
    /\ Result.finalOutcome = "CIRCUIT_BREAKER"
    /\ Result.consensusCount = 1

\* C2: with no CIRCUIT_BREAKER vote, when at least two votes name the same
\* outcome, applyConsensus returns that outcome, consensusCount is the number
\* of votes naming it, and the aggregate confidence is the mean confidencePct
\* of exactly those votes, times 100, rounded to the nearest integer.
C2_MajorityOutcome ==
    \A o \in VoteValues :
        (Applied /\ VotersOf("CIRCUIT_BREAKER") = {} /\ Cardinality(VotersOf(o)) >= 2) =>
            /\ Returned
            /\ Result.finalOutcome = o
            /\ Result.consensusCount = Cardinality(VotersOf(o))
            /\ IsRoundedMeanBps(Result.aggregateConfidenceBps,
                                SumOfConfidences(VotersOf(o)),
                                Cardinality(VotersOf(o)))

\* Two votes for FAVOR_PARTY_B with different confidences, and a dissenting
\* vote whose confidence is higher than both.
C2_Witness ==
    /\ Applied
    /\ VotersOf("FAVOR_PARTY_B") = {1, 3}
    /\ cVotes[2].vote = "FAVOR_PARTY_A"
    /\ cVotes[1].confidencePct < cVotes[3].confidencePct
    /\ cVotes[3].confidencePct < cVotes[2].confidencePct
    /\ Result.finalOutcome = "FAVOR_PARTY_B"
    /\ Result.consensusCount = 2
    /\ Result.aggregateConfidenceBps > 0

\* C3: three votes that are pairwise different and none of them
\* CIRCUIT_BREAKER give NO_CONSENSUS with consensusCount 1 and aggregate
\* confidence 0.
C3_AllDifferent ==
    (/\ Applied
     /\ VotersOf("CIRCUIT_BREAKER") = {}
     /\ cVotes[1].vote # cVotes[2].vote
     /\ cVotes[1].vote # cVotes[3].vote
     /\ cVotes[2].vote # cVotes[3].vote) =>
        /\ Returned
        /\ Result.finalOutcome = "NO_CONSENSUS"
        /\ Result.consensusCount = 1
        /\ Result.aggregateConfidenceBps = 0

C3_Witness ==
    /\ Applied
    /\ cVotes[1].vote = "INSUFFICIENT_EVIDENCE"
    /\ cVotes[2].vote = "FAVOR_PARTY_B"
    /\ cVotes[3].vote = "FAVOR_PARTY_A"
    /\ cVotes[1].confidencePct = 100
    /\ Result.finalOutcome = "NO_CONSENSUS"

(***************************************************************************)
(* Properties of one model call (SpecParse) and of a run (Spec).           *)
(***************************************************************************)
\* The response is a completion whose text holds a JSON object with one of
\* the three verdicts a model may give.
WellFormed(resp) ==
    /\ resp.transport = "ok"
    /\ resp.body = "completion"
    /\ resp.text.shape = "json"
    /\ resp.text.verdict \in {"FAVOR_PARTY_A", "FAVOR_PARTY_B", "INSUFFICIENT_EVIDENCE"}

\* c is the payload's confidence (given in tenths) rounded to the nearest
\* integer and clamped to 0..100; a payload without a number gives NaN.
IsClampedConfidence(c, tenths) ==
    \/ tenths = NaN /\ c = NaN
    \/ tenths # NaN /\ c = 0 /\ tenths < 5
    \/ tenths # NaN /\ c = 100 /\ tenths >= 995
    \/ tenths # NaN /\ 0 < c /\ c < 100 /\ 10 * c - 5 <= tenths /\ tenths < 10 * c + 5

\* The parsed verdict v is the one the response resp of model k stands for.
Carries(v, k, resp) ==
    /\ v.modelId = ModelIds[k]
    /\ IF WellFormed(resp)
       THEN /\ v.vote = resp.text.verdict
            /\ IsClampedConfidence(v.confidencePct, resp.text.confidence)
            /\ v.reasoning = IF resp.text.reasoning = ""
                             THEN <<"No reasoning provided">>
                             ELSE <<resp.text.reasoning>>
            /\ v.parseSuccess
       ELSE /\ v.vote = "CIRCUIT_BREAKER"
            /\ v.confidencePct = 0
            /\ ~v.parseSuccess

NoModelRequest == \A i \in 1..3 : reqs[ModelIds[i]] = 0

NoEvidenceRequest == \A p \in Parties : reqs[evidenceEndpoint(p)] = 0

\* C4: if the content fetched for either party hashes to something else than
\* that party's on-chain commitment, the run fails with the integrity error,
\* and no model request, consensus, signature or output happens in the run.
C4_TamperedEvidenceHalts ==
    (\E p \in Parties : evCheck[p] = "mismatch") =>
        /\ pc = "failed"
        /\ error = "evidence_integrity"
        /\ NoModelRequest
        /\ modelOrder = <<>>
        /\ consensusRes = <<>>
        /\ verdictSig = <<>>
        /\ outputs = <<>>

\* Party A's evidence arrived first and verified; party B's was tampered with.
C4_Witness ==
    /\ evCheck["A"] = "match"
    /\ evidences["A"] # <<>>
    /\ evCheck["B"] = "mismatch"
    /\ pc = "failed"

\* C5: the run goes past validation only when the fetched dispute is
\* IN_ARBITRATION and both evidence hashes are non-zero; with any other
\* dispute record it fails, and no evidence request, model request, signature
\* or output happens.
C5_ValidationGate ==
    /\ (disputeRec # <<>> /\ ~(/\ disputeRec[1].status = "IN_ARBITRATION"
                               /\ disputeRec[1].evidenceHashA # ZeroHash
                               /\ disputeRec[1].evidenceHashB # ZeroHash)) =>
            /\ pc = "failed"
            /\ error \in {"wrong_status", "missing_evidence_hashes"}
            /\ NoEvidenceRequest
            /\ NoModelRequest
            /\ verdictSig = <<>>
            /\ outputs = <<>>
    /\ (~NoEvidenceRequest \/ ~NoModelRequest \/ verdictSig # <<>>) =>
            /\ disputeRec # <<>>
            /\ disputeRec[1].status = "IN_ARBITRATION"
            /\ disputeRec[1].evidenceHashA # ZeroHash
            /\ disputeRec[1].evidenceHashB # ZeroHash

\* The dispute is IN_ARBITRATION but party B never committed evidence.
C5_Witness ==
    /\ disputeRec # <<>>
    /\ disputeRec[1].status = "IN_ARBITRATION"
    /\ disputeRec[1].evidenceHashA # ZeroHash
    /\ disputeRec[1].evidenceHashB = ZeroHash
    /\ pc = "failed"
    /\ error = "missing_evidence_hashes"

\* C6 as stated: a run that emitted an output emitted the output of a verdict
\* and has not failed.
C6_OutputXorFailure ==
    outputs # <<>> =>
        /\ pc # "failed"
        /\ \A k \in 1..Len(outputs) : outputs[k].calldata # <<"0x">>

\* C6, as the code has it: a run emits at most one output.  The output is
\* that of a signed verdict with one of the five outcomes or, when the input
\* names no dispute, the "No disputes" placeholder.  A run that ends without
\* failing has emitted its output; a run that fails before or inside
\* resolveDispute has emitted none; a run that fails after its output was
\* written is one with SUBMIT_ONCHAIN set, failing in the submission.
C6_OutputOrEarlyFailure ==
    /\ Len(outputs) <= 1
    /\ outputs # <<>> =>
        \/ /\ disputeIdsOf(input) = <<>>
           /\ outputs[1] = NoDisputesOutput
        \/ /\ disputeIdsOf(input) # <<>>
           /\ builtVerdict # <<>>
           /\ verdictSig # <<>>
           /\ builtVerdict[1].finalOutcome \in
                {"FAVOR_PARTY_A", "FAVOR_PARTY_B", "INSUFFICIENT_EVIDENCE",
                 "NO_CONSENSUS", "CIRCUIT_BREAKER"}
           /\ outputs[1].disputeId = disputeIdsOf(input)[1]
           /\ outputs[1].signature = verdictSig[1]
           /\ outputs[1].verdictSummary[4] = builtVerdict[1].finalOutcome
           /\ outputs[1].calldata = encodeSubmitVerdictCalldata(builtVerdict[1], verdictSig[1])
    /\ pc = "done" => Len(outputs) = 1
    /\ (pc = "failed" /\ outputs # <<>>) =>
            /\ input.submitOnchain
            /\ error = "submit_threw"
    /\ (pc = "failed" /\ error # "submit_threw") => outputs = <<>>

\* The output of a NO_CONSENSUS verdict was written, then the run failed in
\* the direct submission.
C6_Witness ==
    /\ pc = "failed"
    /\ error = "submit_threw"
    /\ Len(outputs) = 1
    /\ builtVerdict # <<>>
    /\ builtVerdict[1].finalOutcome = "NO_CONSENSUS"

\* C7: in whatever order the three model calls complete, the parsed votes and
\* the verdict's modelVotes have three entries in the order claude-opus-4-6,
\* gpt-4o, mistral-large-2411, and entry k carries the vote, confidence and
\* reasoning of model k's own response.
C7_FixedVoteOrder ==
    /\ parsedVotes # <<>> =>
        /\ Len(parsedVotes) = 3
        /\ parsedVotes[1].modelId = "claude-opus-4-6"
        /\ parsedVotes[2].modelId = "gpt-4o"
        /\ parsedVotes[3].modelId = "mistral-large-2411"
        /\ \A k \in 1..3 : Carries(parsedVotes[k], k, modelResp[k][1])
    /\ builtVerdict # <<>> =>
        /\ Len(builtVerdict[1].modelVotes) = 3
        /\ \A k \in 1..3 :
            /\ builtVerdict[1].modelVotes[k].modelId = ModelIds[k]
            /\ builtVerdict[1].modelVotes[k].vote = parsedVotes[k].vote
            /\ builtVerdict[1].modelVotes[k].reasoning = parsedVotes[k].reasoning
            /\ builtVerdict[1].modelVotes[k].confidenceBps =
                    IF parsedVotes[k].confidencePct = NaN THEN NaN
                    ELSE 100 * parsedVotes[k].confidencePct

\* The calls completed in the order mistral, gpt-4o, claude, each with a
\* different answer.
C7_Witness ==
    /\ modelOrder = <<3, 2, 1>>
    /\ builtVerdict # <<>>
    /\ builtVerdict[1].modelVotes[1].vote = "FAVOR_PARTY_B"
    /\ builtVerdict[1].modelVotes[1].confidenceBps = 10000
    /\ builtVerdict[1].modelVotes[2].vote = "INSUFFICIENT_EVIDENCE"
    /\ builtVerdict[1].modelVotes[2].confidenceBps = 5100
    /\ builtVerdict[1].modelVotes[3].vote = "FAVOR_PARTY_A"
    /\ builtVerdict[1].modelVotes[3].confidenceBps = 8800

\* C8: a model call that fails in transport, answers with an error or with
\* no usable content, or whose text does not parse to one of the three
\* allowed verdicts, is turned into the vote CIRCUIT_BREAKER with confidence 0
\* and parseSuccess false.
C8_FailureBecomesCircuitBreaker ==
    (pVerdict # <<>> /\ ~WellFormed(pResp)) =>
        /\ pVerdict[1].vote = "CIRCUIT_BREAKER"
        /\ pVerdict[1].confidencePct = 0
        /\ pVerdict[1].parseSuccess = FALSE

\* A well-formed JSON answer whose verdict is outside the allowed three.
C8_Witness ==
    /\ pVerdict # <<>>
    /\ pResp.body = "completion"
    /\ pResp.text.shape = "json"
    /\ pResp.text.verdict = "NO_CONSENSUS"
    /\ pResp.text.confidence = 875
    /\ pVerdict[1].vote = "CIRCUIT_BREAKER"

\* C9: a failed call or an unparseable answer of one model never makes
\* queryAllModels fail, and the verdicts of the other models still carry
\* their own responses.
C9_FailureIsolation ==
    \A i \in 1..3 :
        (modelResp[i] # <<>> /\ ~WellFormed(modelResp[i][1])) =>
            /\ error # "model_call_rejected"
            /\ modelPending = {} => parsedVotes # <<>>
            /\ parsedVotes # <<>> =>
                \A j \in (1..3) \ {i} : Carries(parsedVotes[j], j, modelResp[j][1])

\* gpt-4o's request was rejected first; the two others answered afterwards.
C9_Witness ==
    /\ parsedVotes # <<>>
    /\ modelOrder[1] = 2
    /\ modelResp[2][1].transport = "reject"
    /\ parsedVotes[2].vote = "CIRCUIT_BREAKER"
    /\ parsedVotes[1].vote = "FAVOR_PARTY_A"
    /\ parsedVotes[1].confidencePct = 88
    /\ parsedVotes[3].vote = "FAVOR_PARTY_B"

\* C10: with SUBMIT_ONCHAIN set, the verdict handed to submitVerdictOnChain,
\* which signs and encodes it into the transaction, is the WorkflowVerdict the
\* run built and emitted.
C10_SubmitsBuiltVerdict ==
    submitArg # <<>> => submitArg = builtVerdict

\* The words of the calldata between the two offsets and the signature: the
\* verdict's fields as encodeSubmitVerdictCalldata lays them out.
CalldataVerdictWords(calldata) == SubSeq(calldata, 4, Len(calldata) - 2)

\* The digest the signature sig was made over.
SignedDigest(sig) == sig[3]

HashedContent(verdict) ==
    <<verdict.disputeId, verdict.finalOutcome,
      [k \in 1..3 |-> <<verdict.modelVotes[k].modelId, verdict.modelVotes[k].vote,
                        verdict.modelVotes[k].confidenceBps,
                        verdict.modelVotes[k].reasoning>>],
      verdict.consensusCount, verdict.evidenceHashA, verdict.evidenceHashB,
      verdict.executedAt, verdict.workflowRunId>>

\* Every call so far returned a digest, and calls on the same verdict
\* returned the same one.
HashIsDeterministic ==
    \A i, j \in 1..Len(hDigests) :
        /\ hDigests[i][2][1] = "ok"
        /\ hVerdicts[hDigests[i][1]] = hVerdicts[hDigests[j][1]] =>
                hDigests[i][2] = hDigests[j][2]

C13_VotesNotMutated == [][cVotes' = cVotes]_vars

\* A what-if call whose hypothetical vote differs from the model's own vote
\* and gives another outcome than the caller's list does.
C13_Witness ==
    /\ cCall # <<>>
    /\ cCall[1] = "simulateWhatIf"
    /\ cVotes[cCall[2] + 1].vote # cCall[3]
    /\ cResult[1][2].finalOutcome = "CIRCUIT_BREAKER"
    /\ applyConsensus(cVotes)[2].finalOutcome = "FAVOR_PARTY_A"

(***************************************************************************)
(* Order of the steps of a run (Spec).                                     *)
(***************************************************************************)
NoRequestAtAll == \A e \in Endpoints : reqs[e] = 0

OnlyDisputeRequested ==
    \A e \in Endpoints : reqs[e] = IF e = "getDispute" THEN 1 ELSE 0

PreconditionFailure ==
    /\ pc = "failed"
    /\ error \in {"missing_secrets", "wrong_status", "missing_evidence_hashes"}

\* C14 as stated: a run that failed on a precondition (a missing secret, a
\* wrong dispute status, a zero evidence hash) has issued no network request.
C14_PreconditionBeforeAnyRequest == PreconditionFailure => NoRequestAtAll

\* C14, as the code has it: a missing required secret aborts the run before
\* any network request.  A wrong dispute status or a zero evidence hash aborts
\* it after the one request that fetched the dispute record, and before any
\* evidence or model request.
C14_PreconditionAborts ==
    /\ (input.missingSecrets # {} /\ pc # "start") =>
            /\ pc = "failed"
            /\ error = "missing_secrets"
            /\ NoRequestAtAll
    /\ (pc = "failed" /\ error \in {"wrong_status", "missing_evidence_hashes"}) =>
            OnlyDisputeRequested

\* A dispute that is not IN_ARBITRATION was fetched, and the run stopped there.
C14_Witness ==
    /\ pc = "failed"
    /\ error = "wrong_status"
    /\ disputeRec # <<>>
    /\ disputeRec[1].status = "SETTLED"
    /\ reqs["getDispute"] = 1

EvidenceRequested == \E p \in Parties : reqs[evidenceEndpoint(p)] > 0

ModelRequested == \E i \in 1..3 : reqs[ModelIds[i]] > 0

\* Each step of a run that has left a product finds the product of the step
\* before it, up to the signature.
StepsInOrderUpToSigning ==
    /\ \A e \in Endpoints : reqs[e] <= 1
    /\ \A i, j \in 1..Len(modelOrder) : modelOrder[i] = modelOrder[j] => i = j
    /\ Len(outputs) <= 1
    /\ pc = "fetchDispute" => (OnlyDisputeRequested /\ disputeRec = <<>>)
    /\ pc = "fetchEvidence" => (~ModelRequested /\ parsedVotes = <<>>)
    /\ pc = "queryModels" => (consensusRes = <<>> /\ verdictSig = <<>> /\ outputs = <<>>)
    /\ (disputeRec # <<>> \/ EvidenceRequested) => reqs["getDispute"] = 1
    /\ EvidenceRequested =>
            /\ disputeRec # <<>>
            /\ disputeRec[1].status = "IN_ARBITRATION"
            /\ \A p \in Parties : reqs[evidenceEndpoint(p)] = 1
    /\ ModelRequested =>
            /\ evPending = {}
            /\ \A p \in Parties : evidences[p] # <<>> /\ evCheck[p] = "match"
    /\ parsedVotes # <<>> => (modelPending = {} /\ \A i \in 1..3 : reqs[ModelIds[i]] = 1)
    /\ consensusRes # <<>> => parsedVotes # <<>>
    /\ builtVerdict # <<>> => consensusRes # <<>>
    /\ verdictSig # <<>> => builtVerdict # <<>>
    /\ submitArg # <<>> => (input.submitOnchain /\ Len(outputs) = 1)

\* C15 as stated: in every run the steps happen at most once and in the
\* order fetch dispute, validate, fetch evidence, query models, consensus,
\* sign, emit output, then broadcast if configured, none before the one
\* before it has succeeded: an output is emitted only after the signature.
C15_LinearSteps ==
    /\ StepsInOrderUpToSigning
    /\ outputs # <<>> => verdictSig # <<>>

\* C15, as the code has it: the steps happen at most once and in that order,
\* none before the one before it has succeeded, in every run whose input
\* names a dispute.  A run whose input names none performs no other step and
\* emits the "No disputes" output.
C15_LinearStepsOfADispute ==
    /\ StepsInOrderUpToSigning
    /\ (outputs # <<>> /\ disputeIdsOf(input) # <<>>) => verdictSig # <<>>
    /\ (outputs # <<>> /\ disputeIdsOf(input) = <<>>) =>
            /\ outputs = <<NoDisputesOutput>>
            /\ NoRequestAtAll
            /\ disputeRec = <<>> /\ parsedVotes = <<>> /\ consensusRes = <<>>
            /\ verdictSig = <<>> /\ submitArg = <<>>
            /\ pc = "done"

\* A run with SUBMIT_ONCHAIN set that went through every step.
C15_Witness ==
    /\ submitArg # <<>>
    /\ Len(outputs) = 1
    /\ verdictSig # <<>>
    /\ consensusRes # <<>>
    /\ consensusRes[1].finalOutcome = "FAVOR_PARTY_A"
    /\ Len(modelOrder) = 3
    /\ \A e \in Endpoints : reqs[e] = 1

\* C16: the two evidence requests are issued together, neither waiting for
\* the other's response; the model requests are issued only after both
\* evidence fetches have returned and both contents have passed the hash
\* check; no model request is in flight while an evidence fetch is pending.
C16_EvidenceBeforeModels ==
    /\ reqs[evidenceEndpoint("A")] = reqs[evidenceEndpoint("B")]
    /\ (EvidenceRequested /\ \A p \in Parties : evCheck[p] = "none" /\ evidences[p] = <<>>
            /\ pc = "fetchEvidence") => evPending = Parties
    /\ evPending # {} => (modelPending = {} /\ ~ModelRequested /\ modelOrder = <<>>)
    /\ ModelRequested =>
            /\ evPending = {}
            /\ \A p \in Parties :
                /\ evidences[p] # <<>>
                /\ evidences[p][1].contentHash = expectedHashOf(disputeRec[1], p)
                /\ evCheck[p] = "match"

\* Party B's evidence has returned and verified while party A's fetch is
\* still in flight: no model has been asked yet.
C16_Witness ==
    /\ pc = "fetchEvidence"
    /\ evPending = {"A"}
    /\ evidences["B"] # <<>>
    /\ evCheck["B"] = "match"
    /\ ~ModelRequested

\* The single attempt to reach the model failed: the request was rejected or
\* the answer was an error or had no usable content.
AttemptFailed(resp) ==
    \/ resp.transport = "reject"
    \/ resp.body \in {"notJson", "apiError", "noContent", "emptyContent"}
    \/ resp.body = "completion" /\ resp.text.shape \in {"noJson", "badJson"}

\* C17: each model endpoint is requested at most once per run; a model whose
\* one attempt failed is not asked again, and its vote in the verdict is
\* CIRCUIT_BREAKER.
C17_SingleAttempt ==
    \A i \in 1..3 :
        /\ reqs[ModelIds[i]] <= 1
        /\ modelResp[i] # <<>> => reqs[ModelIds[i]] = 1
        /\ (modelResp[i] # <<>> /\ AttemptFailed(modelResp[i][1])) =>
            /\ i \notin modelPending
            /\ parsedVotes # <<>> => parsedVotes[i].vote = "CIRCUIT_BREAKER"
            /\ builtVerdict # <<>> =>
                /\ builtVerdict[1].modelVotes[i].vote = "CIRCUIT_BREAKER"
                /\ builtVerdict[1].modelVotes[i].confidenceBps = 0
                /\ builtVerdict[1].finalOutcome = "CIRCUIT_BREAKER"

\* The request to mistral-large-2411 was rejected; the verdict was built with
\* that model's vote as CIRCUIT_BREAKER after one request to each model.
C17_Witness ==
    /\ builtVerdict # <<>>
    /\ modelResp[3][1].transport = "reject"
    /\ modelResp[1][1].transport = "ok"
    /\ builtVerdict[1].modelVotes[3].vote = "CIRCUIT_BREAKER"
    /\ builtVerdict[1].modelVotes[1].vote = "FAVOR_PARTY_A"
    /\ \A i \in 1..3 : reqs[ModelIds[i]] = 1

\* C18: a verdict parsed from a well-formed response has the payload's vote
\* and reasoning, and its confidencePct is an integer within 0..100
\* whatever confidence the payload carried: 0 for values below 0, 100 for
\* values above 100.
C18_WellFormedIsClamped ==
    (pVerdict # <<>> /\ WellFormed(pResp)) =>
        /\ pVerdict[1].vote = pResp.text.verdict
        /\ pResp.text.reasoning # "" => pVerdict[1].reasoning = <<pResp.text.reasoning>>
        /\ pVerdict[1].parseSuccess
        /\ pVerdict[1].confidencePct \in 0..100
        /\ (pResp.text.confidence # NaN /\ pResp.text.confidence < 0) =>
                pVerdict[1].confidencePct = 0
        /\ (pResp.text.confidence # NaN /\ pResp.text.confidence > 1000) =>
                pVerdict[1].confidencePct = 100

\* The call took an RPC error answer to the method m into account.
ErrorAnswered(m) == sResp[m] # <<>> /\ sResp[m][1].kind = "error"

\* The call has ended: it returned a transaction hash or it threw.
Settled == sResult # <<>>

\* C19: an RPC error answer to any of the three methods makes
\* submitVerdictOnChain fail with the message of that RPC error and without a
\* transaction hash; each method is requested at most once and nothing is
\* sent again.
C19_RpcErrorSurfaces ==
    /\ \A m \in RpcMethods : sReqs[m] <= 1
    /\ (Settled /\ \E m \in RpcMethods : ErrorAnswered(m)) =>
        /\ sResult[1] = "threw"
        /\ \E m \in RpcMethods :
            /\ ErrorAnswered(m)
            /\ \E k \in 1..Len(sResult[2]) : sResult[2][k] = sResp[m][1].message

\* C20: when a party commits on-chain exactly the contentHash the evidence
\* server returned for its content, and the stored content is untouched, the
\* workflow's integrity check on the fetched content passes.
C20_ReturnedHashPassesCheck ==
    \A p \in Parties :
        (eFetched[p] # <<>> /\ eCommitted[p] = eReturned[p]) =>
            /\ eFetched[p][1][1] = "ok"
            /\ eFetched[p][1][2].contentHash = eCommitted[p][1]

\* What the store keeps of a submission: the content, its hash and the
\* party address.
Submission(stored) ==
    <<stored[1].encryptedContent[3], stored[1].contentHash, stored[1].partyAddress>>

\* Once evidence of party p is stored, no step changes its content, hash or
\* party address.
FirstSubmissionKept ==
    \A p \in Parties :
        eStore[p] # <<>> =>
            /\ eStore'[p] # <<>>
            /\ Submission(eStore'[p]) = Submission(eStore[p])
            /\ (eLast'.req = "POST" /\ eLast'.party = p) => eStore'[p] = eStore[p]

C22_FrontendCopyAgrees ==
    (Applied /\ fResult # <<>>) =>
        /\ Returned
        /\ fResult[1].finalOutcome = Result.finalOutcome
        /\ fResult[1].consensusCount = Result.consensusCount
        /\ fResult[1].aggregateConfidenceBps = Result.aggregateConfidenceBps
        /\ fResult[1].voteCounts = Result.voteCounts

\* Both copies were called on a 2-to-1 split and returned FAVOR_PARTY_B with
\* an average that needed rounding.
C22_Witness ==
    /\ Applied
    /\ fResult # <<>>
    /\ fResult[1].finalOutcome = "FAVOR_PARTY_B"
    /\ fResult[1].consensusCount = 2
    /\ cVotes[1].vote = "FAVOR_PARTY_A"
    /\ fResult[1].aggregateConfidenceBps = 1650
    /\ Result.aggregateConfidenceBps = 1650

\* The run has ended: its output is written, or it failed fatally.
Terminated ==
    \/ pc = "done" /\ Len(outputs) = 1
    \/ pc = "failed" /\ error # "none"

\* C23: when every request is eventually answered, every run eventually
\* terminates, by emitting its output or by failing fatally.
C23_RunTerminates == <>Terminated

\* A run that went through every step and ended with its signed output.
C23_Witness ==
    /\ pc = "done"
    /\ Len(modelOrder) = 3
    /\ verdictSig # <<>>
    /\ Len(outputs) = 1
    /\ builtVerdict[1].finalOutcome = "FAVOR_PARTY_A"

\* The models whose response was well-formed with a vote for outcome o.
WellFormedVotersFor(o) ==
    {i \in 1..3 : /\ modelResp[i] # <<>>
                  /\ WellFormed(modelResp[i][1])
                  /\ modelResp[i][1].text.verdict = o}

\* C24: a verdict for party A or party B is signed only if all three model
\* calls of the run returned a well-formed verdict and at least two of them
\* voted for that party; one failed or unparseable model makes the verdict
\* CIRCUIT_BREAKER.
C24_PartyWinsOnlyByMajority ==
    /\ (verdictSig # <<>> /\ builtVerdict[1].finalOutcome \in {"FAVOR_PARTY_A", "FAVOR_PARTY_B"}) =>
        /\ \A i \in 1..3 : modelResp[i] # <<>> /\ WellFormed(modelResp[i][1])
        /\ Cardinality(WellFormedVotersFor(builtVerdict[1].finalOutcome)) >= 2
    /\ (builtVerdict # <<>> /\ \E i \in 1..3 : ~WellFormed(modelResp[i][1])) =>
        /\ consensusRes[1].finalOutcome = "CIRCUIT_BREAKER"
        /\ builtVerdict[1].finalOutcome = "CIRCUIT_BREAKER"

\* A signed verdict for party A on a 2-to-1 split, the third model having
\* voted for party B.
C24_Witness ==
    /\ verdictSig # <<>>
    /\ builtVerdict[1].finalOutcome = "FAVOR_PARTY_A"
    /\ WellFormedVotersFor("FAVOR_PARTY_A") = {1, 2}
    /\ WellFormedVotersFor("FAVOR_PARTY_B") = {3}

SumOfCounts(counts) ==
    counts["FAVOR_PARTY_A"] + counts["FAVOR_PARTY_B"] + counts["INSUFFICIENT_EVIDENCE"]
    + counts["NO_CONSENSUS"] + counts["CIRCUIT_BREAKER"]

\* C25: applyConsensus returns voteCounts that count every input vote once
\* and so sum to 3, and a consensusCount within 1..3; when the final outcome
\* is one of the three verdicts a model may give, consensusCount is at least
\* 2 and is the number of input votes equal to the final outcome.
C25_CountsAreConsistent ==
    Applied =>
        /\ Returned
        /\ DOMAIN Result.voteCounts = VerdictOutcome
        /\ \A o \in VerdictOutcome : Result.voteCounts[o] = Cardinality(VotersOf(o))
        /\ SumOfCounts(Result.voteCounts) = 3
        /\ Result.consensusCount \in 1..3
        /\ Result.finalOutcome \in allowedVerdicts =>
            /\ Result.consensusCount >= 2
            /\ Result.consensusCount = Cardinality(VotersOf(Result.finalOutcome))
            /\ Result.consensusCount = Result.voteCounts[Result.finalOutcome]

\* A unanimous INSUFFICIENT_EVIDENCE: three votes counted for one outcome.
C25_Witness ==
    /\ Applied
    /\ Result.finalOutcome = "INSUFFICIENT_EVIDENCE"
    /\ Result.consensusCount = 3
    /\ Result.voteCounts["INSUFFICIENT_EVIDENCE"] = 3
    /\ Result.voteCounts["FAVOR_PARTY_A"] = 0

Simulated == cCall # <<>> /\ cCall[1] = "simulateWhatIf"

\* The caller's triple with the vote at position modelIndex (from 0) replaced
\* by v; modelId, confidence and the other two votes as they are.
TripleWith(modelIndex, v) == [cVotes EXCEPT ![modelIndex + 1].vote = v]

\* C26: simulateWhatIf(votes, i, v) returns exactly what applyConsensus
\* returns on the triple that equals votes except for the vote v at
\* position i.
C26_WhatIfIsApplyOnModified ==
    Simulated =>
        /\ cResult # <<>>
        /\ cResult[1] = applyConsensus(TripleWith(cCall[2], cCall[3]))
        /\ cResult[1][1] = "ok"
        /\ cResult[1][2].voteCounts[cCall[3]] >= 1

\* The what-if of the tests: three votes for FAVOR_PARTY_A, the last one
\* turned into FAVOR_PARTY_B, leaves a 2-to-1 consensus for party A whose
\* confidence is the mean of the two unchanged votes.
C26_Witness ==
    /\ cCall = <<"simulateWhatIf", 2, "FAVOR_PARTY_B">>
    /\ \A i \in 1..3 : cVotes[i].vote = "FAVOR_PARTY_A"
    /\ cVotes[1].confidencePct = 100
    /\ cVotes[2].confidencePct = 33
    /\ cResult[1][2].finalOutcome = "FAVOR_PARTY_A"
    /\ cResult[1][2].consensusCount = 2
    /\ cResult[1][2].aggregateConfidenceBps = 6650

\* The one dispute an invocation may resolve: the manual id when there is
\* one, otherwise the first id of the pending list, otherwise none ("").
TheDispute ==
    IF input.manualDisputeId # <<>> THEN input.manualDisputeId[1]
    ELSE IF input.pendingDisputes # <<>> THEN input.pendingDisputes[1]
    ELSE ""

ShowsReset == dPhase = "idle" /\ dStep = 0 /\ dRevealed = 0

LaunchInvoked == Len(dRuns') > Len(dRuns)

\* C28: once reset is invoked during a running demo, the cancelled run makes
\* no further state update: step stays 0, revealed stays 0 and phase stays
\* 'idle' until launch is invoked again, whenever reset comes relative to the
\* run's pending step timer.
C28_ResetStopsTheRun ==
    [][(dRuns # <<>> /\ ShowsReset /\ ~LaunchInvoked) => ShowsReset']_vars

BothStored == \A p \in Parties : eStore[p] # <<>>

\* No GET has returned the evidence of either party.
NeitherFetched == \A p \in Parties : eReads[p] = 0

Listed(disputes) == disputes = <<EvidenceDisputeId>>

C30_OneTimeRead == \A p \in Parties : eReads[p] <= 1

====
